---- MODULE Spec2Model ----
(***************************************************************************)
(* AWS Landing Zone configuration tool: the static catalog (tiers and      *)
(* features), the pricing loader with its in-memory AWS pricing cache, and *)
(* the cost calculation engine calculateCosts.                             *)
(*                                                                         *)
(* Amounts are whole dollars and counts are whole units: JavaScript        *)
(* numbers are modelled by the naturals, on which the code's additions and *)
(* multiplications are exact.                                              *)
(***************************************************************************)
EXTENDS Integers, Sequences, FiniteSets, TLC

VARIABLES
    pricing,            \* pricing-loader.ts: the loaded pricing configuration
    availableFeatures,  \* schema.ts: the feature catalog built at module load
    landingZoneConfigurations,  \* schema.ts: the four tiers built at module load
    pricingCache,       \* pricing-loader.ts: let pricingCache (null or a cache)
    now,                \* Date.now(), in milliseconds since module load
    costCalculation,    \* the caller's inputs: selectedConfig, selectedFeatures,
                        \* customEC2Count, customStorageTB, additionalCosts
    costs,              \* the breakdown returned by the last calculateCosts call
    returned,           \* history: every call made so far, as its inputs, the
                        \* breakdown it returned and whether a valid pricing
                        \* cache existed when it was made
    featurePrice,       \* the last getFeaturePricing call: the ID asked for, the
                        \* value returned, and what the pricing cache answered
                        \* for that ID when the call was made
    refreshes,          \* the buildAWSPricingCache calls: for each caller, where
                        \* its call stands and the locals of the call
    submissions,        \* storage.ts: MemStorage.submissions, by submissionId
    req,                \* routes.ts: the last request to /api/submissions: the
                        \* body of a POST, the query or the params of a GET
    res,                \* routes.ts: the response to it (status and JSON body)
    selector            \* AdditionalCostsSelector.tsx: the component's state
                        \* (editingId, newCost, editingCost, errors), the next
                        \* ID of crypto.randomUUID and the number of calls of
                        \* onAdditionalCostsChange made so far

vars == <<pricing, availableFeatures, landingZoneConfigurations, pricingCache, now,
          costCalculation, costs, returned, featurePrice, refreshes,
          submissions, req, res, selector>>

(***************************************************************************)
(* Bounds of the model.                                                    *)
(***************************************************************************)
MaxSel == 2
MaxEC2 == 2
MaxTB == 1
MaxAdd == 1
MaxNow == 2
MaxRefreshers == 2
MaxSubmissions == 2
MaxCalls == 3

(***************************************************************************)
(* Arrays are sequences; Array.prototype.includes.                         *)
(***************************************************************************)
Includes(arr, x) == \E i \in DOMAIN arr : arr[i] = x

(* All sequences over S of length at most n. *)
SeqsUpTo(S, n) == UNION {[1..k -> S] : k \in 0..n}

(***************************************************************************)
(* The static catalog.                                                     *)
(***************************************************************************)
AllSizes == <<"very-small", "small", "medium", "large">>
SML == <<"small", "medium", "large">>
ML == <<"medium", "large">>
L == <<"large">>

(* The feature definitions without their prices: id, mandatory flag and    *)
(* the tiers that offer the feature, in declaration order.                 *)
featureDefinitions ==
    << [id |-> "aws-organizations",         mandatory |-> TRUE,  availableInSizes |-> AllSizes],
       [id |-> "control-tower",             mandatory |-> FALSE, availableInSizes |-> SML],
       [id |-> "control-tower-extensions",  mandatory |-> FALSE, availableInSizes |-> L],
       [id |-> "guardduty",                 mandatory |-> FALSE, availableInSizes |-> AllSizes],
       [id |-> "security-hub",              mandatory |-> FALSE, availableInSizes |-> SML],
       [id |-> "inspector",                 mandatory |-> FALSE, availableInSizes |-> SML],
       [id |-> "network-firewall",          mandatory |-> FALSE, availableInSizes |-> ML],
       [id |-> "transit-gateway",           mandatory |-> FALSE, availableInSizes |-> SML],
       [id |-> "direct-connect",            mandatory |-> FALSE, availableInSizes |-> ML],
       [id |-> "systems-manager",           mandatory |-> FALSE, availableInSizes |-> SML],
       [id |-> "cloudformation-stacksets",  mandatory |-> FALSE, availableInSizes |-> ML],
       [id |-> "account-factory-terraform", mandatory |-> FALSE, availableInSizes |-> L],
       [id |-> "cloudwatch-enhanced",       mandatory |-> FALSE, availableInSizes |-> ML],
       [id |-> "cloudtrail-organization",   mandatory |-> TRUE,  availableInSizes |-> SML],
       [id |-> "elasticsearch-logging",     mandatory |-> FALSE, availableInSizes |-> L] >>

Price(infra, ps) == [infraCostImpact |-> infra, professionalServicesCostImpact |-> ps]

(* pricing.featurePricing: the static (manual) price pair of each feature. *)
featurePricing ==
    [ f \in {featureDefinitions[i].id : i \in DOMAIN featureDefinitions} |->
        CASE f = "aws-organizations"         -> Price(0, 0)
          [] f = "control-tower"             -> Price(50, 5000)
          [] f = "control-tower-extensions"  -> Price(200, 15000)
          [] f = "guardduty"                 -> Price(100, 2000)
          [] f = "security-hub"              -> Price(150, 3000)
          [] f = "inspector"                 -> Price(75, 1500)
          [] f = "network-firewall"          -> Price(300, 8000)
          [] f = "transit-gateway"           -> Price(250, 5000)
          [] f = "direct-connect"            -> Price(500, 10000)
          [] f = "systems-manager"           -> Price(50, 3000)
          [] f = "cloudformation-stacksets"  -> Price(25, 4000)
          [] f = "account-factory-terraform" -> Price(100, 20000)
          [] f = "cloudwatch-enhanced"       -> Price(200, 4000)
          [] f = "cloudtrail-organization"   -> Price(100, 2000)
          [] f = "elasticsearch-logging"     -> Price(400, 8000) ]

Base(infra, ps, perEC2, perTB) ==
    [baseInfraCostPerMonth |-> infra, baseProfessionalServicesCost |-> ps,
     managedServicesCostPerEC2 |-> perEC2, managedServicesCostPerTBStorage |-> perTB]

(* pricing.basePricing: the base prices of each tier. *)
basePricing ==
    [ s \in {"very-small", "small", "medium", "large"} |->
        CASE s = "very-small" -> Base(300, 10000, 150, 100)
          [] s = "small"      -> Base(1200, 25000, 180, 120)
          [] s = "medium"     -> Base(5000, 50000, 200, 140)
          [] s = "large"      -> Base(15000, 100000, 250, 160) ]

(* The migration entries a pricing configuration may carry; a pricing      *)
(* configuration may also carry none.                                      *)
MigrationRates == {450}

(* The pricing configurations the loader may have loaded. *)
PricingConfig ==
    {[basePricing |-> basePricing, featurePricing |-> featurePricing]}
    \cup {[basePricing |-> basePricing, featurePricing |-> featurePricing,
           migrationPricing |-> [costPerVM |-> r]] : r \in MigrationRates}

(***************************************************************************)
(* pricing-loader.ts                                                       *)
(***************************************************************************)
getBasePricing(size) == pricing.basePricing[size]

Undefined == [undefined |-> TRUE]

(* The members every plain object inherits from Object.prototype. *)
ObjectPrototypeKeys ==
    {"constructor", "toString", "valueOf", "hasOwnProperty", "__proto__"}

(* obj[key] on a plain object: an own property, else a member inherited    *)
(* from Object.prototype (a function or object, hence truthy, that has     *)
(* none of the fields of an entry), else undefined.                        *)
Get(obj, key) ==
    IF key \in DOMAIN obj THEN obj[key]
    ELSE IF key \in ObjectPrototypeKeys THEN [inherited |-> key]
    ELSE Undefined

getFeaturePricing(featureId) ==
    LET entry == Get(pricing.featurePricing, featureId)
    IN IF entry # Undefined THEN entry ELSE Price(0, 0)

DefaultCostPerVM == 300

getMigrationPricing ==
    IF "migrationPricing" \in DOMAIN pricing
    THEN pricing.migrationPricing
    ELSE [costPerVM |-> DefaultCostPerVM]

(***************************************************************************)
(* features-loader.ts / schema.ts                                          *)
(***************************************************************************)
(* Mutant: every feature is offered in every tier. *)
getAllFeatures_EverySize ==
    [ i \in DOMAIN featureDefinitions |->
        LET feature == featureDefinitions[i]
            price == getFeaturePricing(feature.id)
        IN [id |-> feature.id, mandatory |-> feature.mandatory,
            infraCostImpact |-> price.infraCostImpact,
            professionalServicesCostImpact |-> price.professionalServicesCostImpact,
            availableInSizes |-> AllSizes] ]

(* getAllFeatures: every feature definition spread with its price pair. *)
getAllFeatures ==
    [ i \in DOMAIN featureDefinitions |->
        LET feature == featureDefinitions[i]
            price == getFeaturePricing(feature.id)
        IN [id |-> feature.id, mandatory |-> feature.mandatory,
            infraCostImpact |-> price.infraCostImpact,
            professionalServicesCostImpact |-> price.professionalServicesCostImpact,
            availableInSizes |-> feature.availableInSizes] ]

(* Mutant: every tier demands each feature that is flagged mandatory,      *)
(* whether the tier offers it or not.                                      *)
Tier_FlaggedMandatory(size, vms, tb, available, mandatory) ==
    LET base == getBasePricing(size)
        flagged == SelectSeq(featureDefinitions, LAMBDA feature : feature.mandatory)
    IN [size |-> size, defaultVMs |-> vms, defaultStorageTB |-> tb,
        baseInfraCostPerMonth |-> base.baseInfraCostPerMonth,
        baseProfessionalServicesCost |-> base.baseProfessionalServicesCost,
        managedServicesCostPerEC2 |-> base.managedServicesCostPerEC2,
        managedServicesCostPerTBStorage |-> base.managedServicesCostPerTBStorage,
        availableFeatures |-> available,
        mandatoryFeatures |-> [i \in DOMAIN flagged |-> flagged[i].id]]

Tier(size, vms, tb, available, mandatory) ==
    LET base == getBasePricing(size)
    IN [size |-> size, defaultVMs |-> vms, defaultStorageTB |-> tb,
        baseInfraCostPerMonth |-> base.baseInfraCostPerMonth,
        baseProfessionalServicesCost |-> base.baseProfessionalServicesCost,
        managedServicesCostPerEC2 |-> base.managedServicesCostPerEC2,
        managedServicesCostPerTBStorage |-> base.managedServicesCostPerTBStorage,
        availableFeatures |-> available, mandatoryFeatures |-> mandatory]

(* The tiers as the module builds them at load. *)
buildConfigurations ==
    << Tier("very-small", 2, 1,
            <<"aws-organizations", "guardduty">>,
            <<"aws-organizations">>),
       Tier("small", 8, 5,
            <<"aws-organizations", "control-tower", "guardduty", "security-hub",
              "inspector", "transit-gateway", "systems-manager",
              "cloudtrail-organization">>,
            <<"aws-organizations", "cloudtrail-organization">>),
       Tier("medium", 25, 15,
            <<"aws-organizations", "control-tower", "guardduty", "security-hub",
              "inspector", "network-firewall", "transit-gateway", "direct-connect",
              "systems-manager", "cloudformation-stacksets", "cloudwatch-enhanced",
              "cloudtrail-organization">>,
            <<"aws-organizations", "cloudtrail-organization">>),
       Tier("large", 100, 50,
            <<"aws-organizations", "control-tower", "control-tower-extensions",
              "guardduty", "security-hub", "inspector", "network-firewall",
              "transit-gateway", "direct-connect", "systems-manager",
              "cloudformation-stacksets", "account-factory-terraform",
              "cloudwatch-enhanced", "cloudtrail-organization",
              "elasticsearch-logging">>,
            <<"aws-organizations", "cloudtrail-organization">>) >>

(* landingZoneConfigurations.find(config => config.size === value) *)
(* Mutant: a size that matches no tier falls back to the first tier. *)
findConfig_FirstOnMiss(value) ==
    IF \E i \in DOMAIN landingZoneConfigurations :
           landingZoneConfigurations[i].size = value
    THEN landingZoneConfigurations[CHOOSE i \in DOMAIN landingZoneConfigurations :
                                       landingZoneConfigurations[i].size = value]
    ELSE landingZoneConfigurations[1]

findConfig(value) ==
    IF \E i \in DOMAIN landingZoneConfigurations :
           landingZoneConfigurations[i].size = value
    THEN landingZoneConfigurations[CHOOSE i \in DOMAIN landingZoneConfigurations :
                                       landingZoneConfigurations[i].size = value]
    ELSE Undefined

(***************************************************************************)
(* pricing-loader.ts: the in-memory AWS pricing cache                      *)
(***************************************************************************)
NoCache == [none |-> TRUE]

Null == [null |-> TRUE]

CACHE_DURATION_MS == 24 * 60 * 60 * 1000

(* aws-service-mapping.json: features mapped to an AWS offer code, in     *)
(* file order: one the live source prices as the catalog does, one it      *)
(* prices differently, and one it reports as free.                         *)
serviceMapping ==
    << [featureId |-> "guardduty",        awsOfferCode |-> "AmazonGuardDuty"],
       [featureId |-> "network-firewall", awsOfferCode |-> "AWSNetworkFirewall"],
       [featureId |-> "control-tower",    awsOfferCode |-> "AWSControlTower"] >>

MappedFeatureIds == {serviceMapping[i].featureId : i \in DOMAIN serviceMapping}

(* What the two fetches of one aggregateFeaturePricing call can come to:   *)
(* both succeed; the index has no such offer; the region index has no such *)
(* region; a fetch throws.                                                 *)
FetchOutcomes == {"ok", "offer-missing", "region-missing", "fetch-failed"}

(* Math.round of the non-negative rational num / den. *)
Round(num, den) == (2 * num + den) \div (2 * den)

parseGuardDutyPricing ==
    LET estimatedMonthlyUsageGB == 100
        monthlyCostCents ==
            IF estimatedMonthlyUsageGB <= 500
            THEN estimatedMonthlyUsageGB * 100
            ELSE IF estimatedMonthlyUsageGB <= 2500
            THEN (500 * 100) + ((estimatedMonthlyUsageGB - 500) * 50)
            ELSE (500 * 100) + (2000 * 50) + ((estimatedMonthlyUsageGB - 2500) * 25)
    IN Round(monthlyCostCents, 100)

parseTransitGatewayPricing ==
    LET baseCost == 36
        estimatedGB == 500
        dataProcessingCostCents == estimatedGB * 2
    IN Round((baseCost * 100) + dataProcessingCostCents, 100)

parseNetworkFirewallPricing ==
    LET baseCost == 365
        estimatedGB == 1000
        dataProcessingCostMills == estimatedGB * 65
    IN Round((baseCost * 1000) + dataProcessingCostMills, 1000)

aggregateFeaturePricing(featureId, offerCode, outcome) ==
    IF outcome = "fetch-failed" THEN 0
    ELSE IF outcome = "offer-missing" THEN 0
    ELSE IF outcome = "region-missing" THEN 0
    ELSE CASE featureId = "guardduty"        -> parseGuardDutyPricing
           [] featureId = "transit-gateway"  -> parseTransitGatewayPricing
           [] featureId = "network-firewall" -> parseNetworkFirewallPricing
           [] featureId \in {"aws-organizations", "control-tower", "iam-basic"} -> 0
           [] OTHER -> 0

(* The cache a build assembles at time `at` from the outcome of each       *)
(* mapped feature's fetches.                                               *)
builtCache(region, outcomes, at) ==
    [lastUpdated |-> at,
     featurePricing |->
        [id \in MappedFeatureIds |->
            LET mapping == serviceMapping[CHOOSE i \in DOMAIN serviceMapping :
                                              serviceMapping[i].featureId = id]
            IN [infraCostImpact |->
                    aggregateFeaturePricing(mapping.featureId, mapping.awsOfferCode,
                                            outcomes[id]),
                source |-> "aws-pricing-api",
                lastUpdated |-> at,
                region |-> region]]]

getCachedAWSPricing(featureId) ==
    IF pricingCache = NoCache THEN Null
    ELSE IF featureId \notin DOMAIN pricingCache.featurePricing THEN Null
    ELSE [value |-> pricingCache.featurePricing[featureId].infraCostImpact]

(* Mutant: a cache exactly one cache duration old still counts as valid. *)
isAWSPricingCacheValid_Inclusive ==
    IF pricingCache = NoCache THEN FALSE
    ELSE now - pricingCache.lastUpdated <= CACHE_DURATION_MS

isAWSPricingCacheValid ==
    IF pricingCache = NoCache THEN FALSE
    ELSE now - pricingCache.lastUpdated < CACHE_DURATION_MS

(***************************************************************************)
(* costCalculations.ts: calculateCosts                                     *)
(***************************************************************************)
(* arr.reduce((sum, x) => sum + F(x), 0) *)
SumOver(arr, F(_)) ==
    LET acc[i \in 0..Len(arr)] == IF i = 0 THEN 0 ELSE acc[i - 1] + F(arr[i])
    IN acc[Len(arr)]

(* Mutant: the filter forgets the tier (no availableInSizes test). *)
selectedFeatureObjects_AnySize(config, selectedFeatures) ==
    SelectSeq(availableFeatures,
              LAMBDA feature : Includes(selectedFeatures, feature.id))

(* Mutant: the selection is mapped to its features, one per listed ID, so  *)
(* an ID listed twice counts twice.                                        *)
selectedFeatureObjects_PerListedId(config, selectedFeatures) ==
    LET known == SelectSeq(selectedFeatures,
                     LAMBDA id : \E i \in DOMAIN availableFeatures :
                         /\ availableFeatures[i].id = id
                         /\ Includes(availableFeatures[i].availableInSizes, config.size))
    IN [k \in DOMAIN known |->
          availableFeatures[CHOOSE i \in DOMAIN availableFeatures :
                                availableFeatures[i].id = known[k]]]

(* Mutant: a feature the tier does not offer is still charged its          *)
(* professional-services work (only its infrastructure cost is dropped).   *)
selectedFeatureObjects_KeepServices(config, selectedFeatures) ==
    LET chosen == SelectSeq(availableFeatures,
                      LAMBDA feature : Includes(selectedFeatures, feature.id))
    IN [k \in DOMAIN chosen |->
          IF Includes(chosen[k].availableInSizes, config.size)
          THEN chosen[k]
          ELSE [chosen[k] EXCEPT !.infraCostImpact = 0]]

(* Mutant: the selected features are re-priced on every call from the     *)
(* live pricing cache (the overlay of AWS_PRICING_INTEGRATION.md applied   *)
(* at call time instead of the catalog built at module load).              *)
selectedFeatureObjects_LivePricing(config, selectedFeatures) ==
    LET chosen == SelectSeq(availableFeatures,
                      LAMBDA feature : /\ Includes(selectedFeatures, feature.id)
                                       /\ Includes(feature.availableInSizes, config.size))
        live(feature) ==
            LET awsInfraCost == getCachedAWSPricing(feature.id)
            IN IF isAWSPricingCacheValid /\ awsInfraCost # Null
               THEN IF awsInfraCost.value > 0
                    THEN [feature EXCEPT !.infraCostImpact = awsInfraCost.value]
                    ELSE feature
               ELSE feature
    IN [k \in DOMAIN chosen |-> live(chosen[k])]

selectedFeatureObjects(config, selectedFeatures) ==
    SelectSeq(availableFeatures,
              LAMBDA feature : /\ Includes(selectedFeatures, feature.id)
                               /\ Includes(feature.availableInSizes, config.size))

(* Mutant: the infrastructure cost of a selected feature is read at call   *)
(* time from the pricing cache whenever a valid cache holds an entry for   *)
(* it.                                                                     *)
featuresInfrastructureCost_CachedWhenValid(objects) ==
    SumOver(objects,
            LAMBDA feature :
                IF isAWSPricingCacheValid /\ getCachedAWSPricing(feature.id) # Null
                THEN getCachedAWSPricing(feature.id).value
                ELSE feature.infraCostImpact)

featuresInfrastructureCost(objects) ==
    SumOver(objects, LAMBDA feature : feature.infraCostImpact)

totalInfrastructureCost(base, features) == base + features

featuresProfessionalServicesCost(objects) ==
    SumOver(objects, LAMBDA feature : feature.professionalServicesCostImpact)

(* Mutant: the reduce starts from the first item instead of from 0 and     *)
(* then adds every item, so a non-empty list counts its first item twice.  *)
additionalCostsTotal_FirstTwice(additionalCosts) ==
    IF Len(additionalCosts) = 0 THEN 0
    ELSE additionalCosts[1].amount
         + SumOver(additionalCosts, LAMBDA cost : cost.amount)

additionalCostsTotal(additionalCosts) ==
    SumOver(additionalCosts, LAMBDA cost : cost.amount)

(* Mutant: the professional-services total of the version before           *)
(* additional costs existed.                                               *)
totalProfessionalServicesCost_NoAdditional(base, features, additional) ==
    base + features

totalProfessionalServicesCost(base, features, additional) ==
    base + features + additional

(* Mutant: at least one VM is always migrated. *)
migrationVMCount_AtLeastOne(ec2Count) == IF ec2Count = 0 THEN 1 ELSE ec2Count

migrationVMCount(ec2Count) == ec2Count

migrationCost(vmCount, costPerVM) == vmCount * costPerVM

(* Mutant: only the instances beyond the tier's default count are billed   *)
(* at the per-instance rate, the default count being billed as one unit.   *)
managedServicesEC2Cost_Bundled(config, ec2Count) ==
    IF ec2Count = 0 THEN 0
    ELSE IF ec2Count <= config.defaultVMs
    THEN (config.defaultVMs - ec2Count + 1) * config.managedServicesCostPerEC2
    ELSE ec2Count * config.managedServicesCostPerEC2

(* Mutant: a count of 0 falls back to the tier's default count            *)
(* (ec2Count || config.defaultVMs).                                        *)
managedServicesEC2Cost_DefaultWhenZero(config, ec2Count) ==
    (IF ec2Count = 0 THEN config.defaultVMs ELSE ec2Count)
        * config.managedServicesCostPerEC2

managedServicesEC2Cost(config, ec2Count) ==
    ec2Count * config.managedServicesCostPerEC2

(* Mutant: storage is billed at the per-instance rate. *)
managedServicesStorageCost_EC2Rate(config, storageTB) ==
    storageTB * config.managedServicesCostPerEC2

managedServicesStorageCost(config, storageTB) ==
    storageTB * config.managedServicesCostPerTBStorage

totalManagedServicesCost(ec2Cost, storageCost) == ec2Cost + storageCost

totalMonthlyCost(infrastructure, managed) == infrastructure + managed

(* Mutant: the first-year total of the version before migration costs     *)
(* existed.                                                                *)
totalFirstYearCost_NoMigration(monthly, professional, migration) ==
    (monthly * 12) + professional

totalFirstYearCost(monthly, professional, migration) ==
    (monthly * 12) + professional + migration

calculateCosts(config, selectedFeatures, ec2Count, storageTB, additionalCosts) ==
    LET objects     == selectedFeatureObjects(config, selectedFeatures)
        baseInfra   == config.baseInfraCostPerMonth
        featInfra   == featuresInfrastructureCost(objects)
        totalInfra  == totalInfrastructureCost(baseInfra, featInfra)
        basePS      == config.baseProfessionalServicesCost
        featPS      == featuresProfessionalServicesCost(objects)
        additional  == additionalCostsTotal(additionalCosts)
        totalPS     == totalProfessionalServicesCost(basePS, featPS, additional)
        perVM       == getMigrationPricing.costPerVM
        vmCount     == migrationVMCount(ec2Count)
        migration   == migrationCost(vmCount, perVM)
        ec2Cost     == managedServicesEC2Cost(config, ec2Count)
        storageCost == managedServicesStorageCost(config, storageTB)
        totalMS     == totalManagedServicesCost(ec2Cost, storageCost)
        monthly     == totalMonthlyCost(totalInfra, totalMS)
        firstYear   == totalFirstYearCost(monthly, totalPS, migration)
    IN [baseInfrastructureCost |-> baseInfra,
        featuresInfrastructureCost |-> featInfra,
        totalInfrastructureCost |-> totalInfra,
        baseProfessionalServicesCost |-> basePS,
        featuresProfessionalServicesCost |-> featPS,
        additionalCostsTotal |-> additional,
        totalProfessionalServicesCost |-> totalPS,
        migrationCost |-> migration,
        migrationCostPerVM |-> perVM,
        migrationVMCount |-> vmCount,
        managedServicesEC2Cost |-> ec2Cost,
        managedServicesStorageCost |-> storageCost,
        totalManagedServicesCost |-> totalMS,
        totalMonthlyCost |-> monthly,
        totalFirstYearCost |-> firstYear]

(***************************************************************************)
(* The inputs a caller (the CostCalculator component, POST                 *)
(* /api/submissions) hands to calculateCosts.                              *)
(***************************************************************************)
UnknownFeature == "unknown-feature"

CatalogIds == {featureDefinitions[i].id : i \in DOMAIN featureDefinitions}

FeatureIds == CatalogIds \cup {UnknownFeature}

(* The IDs a caller's selection is drawn from: the free feature and one    *)
(* priced feature of each availability class of the catalog (all tiers;    *)
(* small and up; medium and up; large only), and an ID the catalog does    *)
(* not know. The properties below range over every ID of FeatureIds.       *)
SelectableIds ==
    {"aws-organizations", "guardduty", "control-tower", "network-firewall",
     "elasticsearch-logging", UnknownFeature}

Amounts == {250}

AdditionalCost == [amount : Amounts]

TierSizes == {AllSizes[i] : i \in DOMAIN AllSizes}

Inputs ==
    [selectedConfig : TierSizes,
     selectedFeatures : SeqsUpTo(SelectableIds, MaxSel),
     customEC2Count : 0..MaxEC2,
     customStorageTB : 0..MaxTB,
     additionalCosts : SeqsUpTo(AdditionalCost, MaxAdd)]

NoCosts == [none |-> TRUE]

(* calculateCosts applied to a caller's inputs. *)
Calculate(c) ==
    calculateCosts(findConfig(c.selectedConfig), c.selectedFeatures,
                   c.customEC2Count, c.customStorageTB, c.additionalCosts)

(***************************************************************************)
(* Spec: a caller supplies inputs and calls calculateCosts on them.        *)
(***************************************************************************)
NoPrice == [none |-> TRUE]

(* The callers of buildAWSPricingCache: initializeAWSPricingCache at       *)
(* application start and the manual refresh.                               *)
Refreshers == 1..MaxRefreshers

Idle == [pc |-> "idle"]

(* new Map() *)
NoSubmissions == [id \in {} |-> Undefined]

NoRequest == [none |-> TRUE]

NoResponse == [none |-> TRUE]

(* useState({ description: "", amount: "" }): texts are sequences of       *)
(* characters.                                                             *)
NoCost == [description |-> <<>>, amount |-> <<>>]

(* useState<Record<string, string>>({}) *)
NoErrors == [field \in {} |-> ""]

(* The state after module load, before any call: the pricing configuration *)
(* is loaded, the catalog is built from it, no pricing cache exists, and   *)
(* the intake form holds its initial values.                               *)
Init ==
    /\ pricing \in PricingConfig
    /\ availableFeatures = getAllFeatures
    /\ landingZoneConfigurations = buildConfigurations
    /\ pricingCache = NoCache
    /\ now = 0
    /\ costCalculation = [selectedConfig |-> "", selectedFeatures |-> <<>>,
                          customEC2Count |-> 1, customStorageTB |-> 1,
                          additionalCosts |-> <<>>]
    /\ costs = NoCosts
    /\ returned = {}
    /\ featurePrice = NoPrice
    /\ refreshes = [r \in Refreshers |-> Idle]
    /\ submissions = NoSubmissions
    /\ req = NoRequest
    /\ res = NoResponse
    /\ selector = [editingId |-> Null, newCost |-> NoCost, editingCost |-> NoCost,
                   errors |-> NoErrors, nextId |-> 1, calls |-> 0]

(* const costs = calculateCosts(selectedConfig, selectedFeatures, ...) *)
CalculateCosts(c) ==
    /\ costCalculation' = c
    /\ costs' = Calculate(c)
    /\ returned' = returned \cup {[inputs |-> c, costs |-> Calculate(c),
                                   cached |-> isAWSPricingCacheValid]}
    /\ UNCHANGED <<selector, pricing, availableFeatures, landingZoneConfigurations, pricingCache, now,
                   featurePrice, refreshes,
                   submissions, req, res>>

Next == costs = NoCosts /\ \E c \in Inputs : CalculateCosts(c)

Spec == Init /\ [][Next]_vars

(***************************************************************************)
(* SpecService: the running service. calculateCosts is called again and    *)
(* again, on the same and on other inputs, while the pricing cache is      *)
(* built, refreshed and cleared and time passes. A build is taken as one   *)
(* step: its fetches are not interleaved with other operations here.       *)
(***************************************************************************)
(* The inputs the callers of the running service come back with. *)
RepeatedInputs ==
    { [selectedConfig |-> "medium",
       selectedFeatures |-> <<"network-firewall", "guardduty">>,
       customEC2Count |-> 2, customStorageTB |-> 1,
       additionalCosts |-> <<[amount |-> 250]>>],
      [selectedConfig |-> "small",
       selectedFeatures |-> <<"guardduty", "network-firewall">>,
       customEC2Count |-> 1, customStorageTB |-> 0,
       additionalCosts |-> <<>>],
      [selectedConfig |-> "very-small",
       selectedFeatures |-> <<>>,
       customEC2Count |-> 0, customStorageTB |-> 0,
       additionalCosts |-> <<>>] }

(* buildAWSPricingCache(region, forceRefresh): a valid cache is returned   *)
(* as it is unless the refresh is forced; otherwise every mapped feature   *)
(* is priced and the cache is replaced.                                    *)
buildAWSPricingCache(region, forceRefresh, outcomes) ==
    /\ IF ~forceRefresh /\ pricingCache # NoCache
       THEN IF now - pricingCache.lastUpdated < CACHE_DURATION_MS
            THEN pricingCache' = pricingCache
            ELSE pricingCache' = builtCache(region, outcomes, now)
       ELSE pricingCache' = builtCache(region, outcomes, now)
    /\ UNCHANGED <<selector, pricing, availableFeatures, landingZoneConfigurations, now,
                   costCalculation, costs, returned, featurePrice, refreshes,
                   submissions, req, res>>

clearAWSPricingCache ==
    /\ pricingCache' = NoCache
    /\ UNCHANGED <<selector, pricing, availableFeatures, landingZoneConfigurations, now,
                   costCalculation, costs, returned, featurePrice, refreshes,
                   submissions, req, res>>

(* Half a cache duration passes. *)
Tick ==
    /\ now < MaxNow * (CACHE_DURATION_MS \div 2)
    /\ now' = now + (CACHE_DURATION_MS \div 2)
    /\ UNCHANGED <<selector, pricing, availableFeatures, landingZoneConfigurations, pricingCache,
                   costCalculation, costs, returned, featurePrice, refreshes,
                   submissions, req, res>>

NextService ==
    \/ \E c \in RepeatedInputs : CalculateCosts(c)
    \/ \E forceRefresh \in BOOLEAN : \E outcomes \in [MappedFeatureIds -> FetchOutcomes] :
          buildAWSPricingCache("us-east-2", forceRefresh, outcomes)
    \/ clearAWSPricingCache
    \/ Tick

SpecService == Init /\ [][NextService]_vars

(* C3: calculateCosts is deterministic: whenever it has been called twice  *)
(* on equal inputs, in whatever order relative to other calls, cache       *)
(* builds, cache clears and the passage of time, the two calls returned    *)
(* field-for-field equal breakdowns.                                       *)
CalculateCostsDeterministic ==
    \A p \in returned : \A q \in returned :
        p.inputs = q.inputs => p.costs = q.costs

(* The same inputs, selecting a feature the live cache prices differently  *)
(* from the catalog, were calculated once without and once with a valid    *)
(* cache that holds that live price.                                       *)
DeterminismWitness ==
    /\ isAWSPricingCacheValid
    /\ getCachedAWSPricing("network-firewall") # Null
    /\ getCachedAWSPricing("network-firewall") # [value |-> getFeaturePricing("network-firewall").infraCostImpact]
    /\ getCachedAWSPricing("network-firewall") # [value |-> 0]
    /\ \E p \in returned : \E q \in returned :
          /\ p.inputs = q.inputs
          /\ p.inputs = costCalculation
          /\ p.cached /\ ~q.cached
          /\ Includes(p.inputs.selectedFeatures, "network-firewall")
          /\ Includes(findConfig(p.inputs.selectedConfig).availableFeatures, "network-firewall")

(***************************************************************************)
(* Properties of calculateCosts.                                           *)
(***************************************************************************)
Config == findConfig(costCalculation.selectedConfig)

Called == costs # NoCosts

RemoveAt(arr, i) == SubSeq(arr, 1, i - 1) \o SubSeq(arr, i + 1, Len(arr))

Without(arr, x) == SelectSeq(arr, LAMBDA y : y # x)

(* calculateCosts on the caller's inputs with another selection. *)
WithSelection(sel) ==
    calculateCosts(Config, sel, costCalculation.customEC2Count,
                   costCalculation.customStorageTB, costCalculation.additionalCosts)

(* C1: the grand totals of every returned breakdown satisfy                *)
(* totalMonthlyCost = totalInfrastructureCost + totalManagedServicesCost   *)
(* and totalFirstYearCost = totalMonthlyCost * 12 +                        *)
(* totalProfessionalServicesCost + migrationCost.                          *)
GrandTotalIdentity ==
    Called =>
        /\ costs.totalMonthlyCost =
              costs.totalInfrastructureCost + costs.totalManagedServicesCost
        /\ costs.totalFirstYearCost =
              costs.totalMonthlyCost * 12 + costs.totalProfessionalServicesCost
              + costs.migrationCost

GrandTotalWitness ==
    /\ Called
    /\ costs.migrationCost > 0
    /\ costs.totalManagedServicesCost > 0
    /\ costs.featuresInfrastructureCost > 0
    /\ costs.additionalCostsTotal > 0

(* C2: each bucket total of every returned breakdown is the sum of its     *)
(* parts: infrastructure = base + features; professional services = base + *)
(* features + additional costs; managed services = EC2 + storage.          *)
BucketAdditivity ==
    Called =>
        /\ costs.totalInfrastructureCost =
              costs.baseInfrastructureCost + costs.featuresInfrastructureCost
        /\ costs.totalProfessionalServicesCost =
              costs.baseProfessionalServicesCost
              + costs.featuresProfessionalServicesCost + costs.additionalCostsTotal
        /\ costs.totalManagedServicesCost =
              costs.managedServicesEC2Cost + costs.managedServicesStorageCost

BucketAdditivityWitness ==
    /\ Called
    /\ costs.featuresInfrastructureCost > 0
    /\ costs.featuresProfessionalServicesCost > 0
    /\ costs.additionalCostsTotal > 0
    /\ costs.managedServicesEC2Cost > 0
    /\ costs.managedServicesStorageCost > 0

(* C4: a selected feature ID that is not in the tier's availableFeatures   *)
(* changes nothing: the breakdown for a selection holding such an ID       *)
(* equals, field for field, the breakdown for the selection without it,    *)
(* and adding any such ID to the caller's selection leaves the breakdown   *)
(* as it is.                                                               *)
UnavailableFeatureExclusion ==
    Called =>
        /\ \A i \in DOMAIN costCalculation.selectedFeatures :
              ~Includes(Config.availableFeatures, costCalculation.selectedFeatures[i])
              => WithSelection(RemoveAt(costCalculation.selectedFeatures, i)) = costs
        /\ \A f \in FeatureIds :
              ~Includes(Config.availableFeatures, f)
              => WithSelection(Append(costCalculation.selectedFeatures, f)) = costs

(* A catalog feature with a price, selected for a tier that does not list it. *)
UnavailableFeatureWitness ==
    /\ Called
    /\ \E i \in DOMAIN costCalculation.selectedFeatures :
          /\ costCalculation.selectedFeatures[i] \in CatalogIds
          /\ getFeaturePricing(costCalculation.selectedFeatures[i]).infraCostImpact > 0
          /\ ~Includes(Config.availableFeatures, costCalculation.selectedFeatures[i])

BreakdownFields ==
    {"baseInfrastructureCost", "featuresInfrastructureCost", "totalInfrastructureCost",
     "baseProfessionalServicesCost", "featuresProfessionalServicesCost",
     "additionalCostsTotal", "totalProfessionalServicesCost",
     "migrationCost", "migrationCostPerVM", "migrationVMCount",
     "managedServicesEC2Cost", "managedServicesStorageCost",
     "totalManagedServicesCost", "totalMonthlyCost", "totalFirstYearCost"}

(* The fields no feature selection can touch. *)
SelectionFreeFields ==
    {"baseInfrastructureCost", "baseProfessionalServicesCost", "additionalCostsTotal",
     "migrationCost", "migrationCostPerVM", "migrationVMCount",
     "managedServicesEC2Cost", "managedServicesStorageCost", "totalManagedServicesCost"}

(* What catalog feature number i adds for the caller's tier once selected. *)
Adds(i, field) ==
    IF Includes(availableFeatures[i].availableInSizes, Config.size)
    THEN availableFeatures[i][field]
    ELSE 0

(* with is without plus the two impacts, and nothing else differs. *)
DiffersBy(with, without, infra, ps) ==
    /\ with.featuresInfrastructureCost = without.featuresInfrastructureCost + infra
    /\ with.totalInfrastructureCost = without.totalInfrastructureCost + infra
    /\ with.featuresProfessionalServicesCost =
          without.featuresProfessionalServicesCost + ps
    /\ with.totalProfessionalServicesCost = without.totalProfessionalServicesCost + ps
    /\ with.totalMonthlyCost = without.totalMonthlyCost + infra
    /\ with.totalFirstYearCost = without.totalFirstYearCost + infra * 12 + ps
    /\ \A k \in SelectionFreeFields : with[k] = without[k]

(* C5: a catalog feature's infraCostImpact and                             *)
(* professionalServicesCostImpact are added if and only if its ID is       *)
(* selected and its availableInSizes contains the tier's size. For every   *)
(* feature of the catalog, the breakdown of a selection holding its ID     *)
(* exceeds the breakdown of the same selection without the ID by exactly   *)
(* the two impacts when the tier is in availableInSizes, and is identical  *)
(* to it otherwise; an ID unknown to the catalog changes no field; and     *)
(* every call returns a complete breakdown of numbers (no error).          *)
FeatureCostIffSelectedAndAvailable ==
    Called =>
        /\ DOMAIN costs = BreakdownFields
        /\ \A k \in BreakdownFields : costs[k] \in Nat
        /\ \A i \in DOMAIN availableFeatures :
              LET id == availableFeatures[i].id
                  infra == Adds(i, "infraCostImpact")
                  ps == Adds(i, "professionalServicesCostImpact")
              IN IF Includes(costCalculation.selectedFeatures, id)
                 THEN DiffersBy(costs,
                                WithSelection(Without(costCalculation.selectedFeatures, id)),
                                infra, ps)
                 ELSE DiffersBy(WithSelection(Append(costCalculation.selectedFeatures, id)),
                                costs, infra, ps)
        /\ WithSelection(Without(costCalculation.selectedFeatures, UnknownFeature)) = costs
        /\ WithSelection(Append(costCalculation.selectedFeatures, UnknownFeature)) = costs

(* The selection holds a priced feature the tier offers, a priced feature  *)
(* whose availableInSizes excludes the tier, or an unknown ID.             *)
FeatureCostWitness ==
    /\ Called
    /\ Len(costCalculation.selectedFeatures) = 2
    /\ \E i \in DOMAIN availableFeatures :
          /\ Includes(costCalculation.selectedFeatures, availableFeatures[i].id)
          /\ Includes(availableFeatures[i].availableInSizes, Config.size)
          /\ availableFeatures[i].infraCostImpact > 0
    /\ \/ Includes(costCalculation.selectedFeatures, UnknownFeature)
       \/ \E i \in DOMAIN availableFeatures :
             /\ Includes(costCalculation.selectedFeatures, availableFeatures[i].id)
             /\ ~Includes(availableFeatures[i].availableInSizes, Config.size)
             /\ availableFeatures[i].professionalServicesCostImpact > 0

Range(arr) == {arr[i] : i \in DOMAIN arr}

(* The IDs of a set, each listed once, in the order of FeatureOrder. *)
FeatureOrder ==
    [i \in 1..(Len(featureDefinitions) + 1) |->
        IF i <= Len(featureDefinitions) THEN featureDefinitions[i].id ELSE UnknownFeature]

Listed(ids) == SelectSeq(FeatureOrder, LAMBDA id : id \in ids)

(* C6: the breakdown depends only on the set of selected IDs: a selection  *)
(* that lists an ID twice, or lists its IDs in another order, gives the    *)
(* breakdown of the list that holds each of its IDs once; and appending an *)
(* ID the selection already holds (as the toggle handler can) changes      *)
(* nothing.                                                                *)
SelectionIsASet ==
    Called =>
        /\ WithSelection(Listed(Range(costCalculation.selectedFeatures))) = costs
        /\ \A i \in DOMAIN costCalculation.selectedFeatures :
              WithSelection(Append(costCalculation.selectedFeatures,
                                   costCalculation.selectedFeatures[i])) = costs

(* A priced feature the tier offers is listed twice. *)
DuplicateSelectionWitness ==
    /\ Called
    /\ Len(costCalculation.selectedFeatures) = 2
    /\ costCalculation.selectedFeatures[1] = costCalculation.selectedFeatures[2]
    /\ costs.featuresInfrastructureCost > 0

(* Two priced features the tier offers are listed against catalog order. *)
PermutedSelectionWitness ==
    /\ Called
    /\ costCalculation.selectedFeatures = <<"guardduty", "control-tower">>
    /\ costs.featuresInfrastructureCost = 150

(* calculateCosts on the caller's inputs with another EC2 count. *)
WithEC2Count(n) ==
    calculateCosts(Config, costCalculation.selectedFeatures, n,
                   costCalculation.customStorageTB, costCalculation.additionalCosts)

(* Breakdown hi is at least breakdown lo in the fields the EC2 count drives. *)
EC2FieldsAtLeast(hi, lo) ==
    /\ hi.managedServicesEC2Cost >= lo.managedServicesEC2Cost
    /\ hi.migrationCost >= lo.migrationCost
    /\ hi.totalMonthlyCost >= lo.totalMonthlyCost
    /\ hi.totalFirstYearCost >= lo.totalFirstYearCost

(* C7: with everything else fixed, for EC2 counts a <= b the breakdown for *)
(* b has managedServicesEC2Cost, migrationCost, totalMonthlyCost and       *)
(* totalFirstYearCost no smaller than the breakdown for a (the caller's    *)
(* count is compared with every smaller and every larger count).           *)
EC2CountMonotonic ==
    Called =>
        /\ \A a \in 0..costCalculation.customEC2Count :
              EC2FieldsAtLeast(costs, WithEC2Count(a))
        /\ \A b \in costCalculation.customEC2Count..(MaxEC2 + 1) :
              EC2FieldsAtLeast(WithEC2Count(b), costs)

(* The caller's count lies strictly between two others and the costs grow. *)
EC2CountMonotonicWitness ==
    /\ Called
    /\ costCalculation.customEC2Count = 1
    /\ costs.managedServicesEC2Cost > WithEC2Count(0).managedServicesEC2Cost
    /\ costs.migrationCost < WithEC2Count(2).migrationCost

(* The migration rate in force, read from the pricing configuration. *)
ConfiguredCostPerVM ==
    IF "migrationPricing" \in DOMAIN pricing THEN pricing.migrationPricing.costPerVM ELSE 300

VerySmallScenarioInputs ==
    [selectedConfig |-> "very-small", selectedFeatures |-> <<>>,
     customEC2Count |-> 2, customStorageTB |-> 1, additionalCosts |-> <<>>]

(* The prices the scenario of C8 states for the very-small tier. *)
VerySmallScenarioPrices ==
    /\ Config.baseInfraCostPerMonth = 300
    /\ Config.baseProfessionalServicesCost = 10000
    /\ Config.managedServicesCostPerEC2 = 150
    /\ Config.managedServicesCostPerTBStorage = 100
    /\ ConfiguredCostPerVM = 300

(* The part of the scenario of C8 that does not involve the first year. *)
VerySmallScenarioBuckets ==
    /\ costs.totalInfrastructureCost = 300
    /\ costs.totalProfessionalServicesCost = 10000
    /\ costs.migrationCost = 600
    /\ costs.totalManagedServicesCost = 400
    /\ costs.totalMonthlyCost = 700

(* C8 as claimed: for the very-small tier (base infra 300, base            *)
(* professional services 10000, 150 per EC2, 100 per TB, migration 300 per *)
(* VM) with no features, 2 EC2, 1 TB and no additional costs, the          *)
(* breakdown has infrastructure total 300, professional-services total     *)
(* 10000, migration 600, managed-services total 400, totalMonthlyCost 700  *)
(* and totalFirstYearCost 18600.                                           *)
VerySmallScenarioAsClaimed ==
    (Called /\ costCalculation = VerySmallScenarioInputs /\ VerySmallScenarioPrices) =>
        /\ VerySmallScenarioBuckets
        /\ costs.totalFirstYearCost = 18600

(* C8 as amended: in that scenario the breakdown has infrastructure total  *)
(* 300, professional-services total 10000, migration 600, managed-services *)
(* total 400, totalMonthlyCost 700 and totalFirstYearCost 19000            *)
(* (700 * 12 + 10000 + 600).                                               *)
VerySmallScenario ==
    (Called /\ costCalculation = VerySmallScenarioInputs /\ VerySmallScenarioPrices) =>
        /\ VerySmallScenarioBuckets
        /\ costs.totalFirstYearCost = 19000

VerySmallScenarioWitness ==
    Called /\ costCalculation = VerySmallScenarioInputs /\ VerySmallScenarioPrices

(* The call with the caller's EC2 count and nothing else: the smallest     *)
(* tier, no features, no storage, no additional costs.                     *)
BareCall ==
    calculateCosts(landingZoneConfigurations[1], <<>>,
                   costCalculation.customEC2Count, 0, <<>>)

(* C9: the migration bucket is keyed to the EC2 count: migrationVMCount is *)
(* ec2Count, migrationCostPerVM is the configured migration rate (300 when *)
(* the pricing configuration has no migration entry), migrationCost is     *)
(* their product, and the three fields are those of the call with the same *)
(* EC2 count and any other tier, selection, storage and additional costs.  *)
MigrationKeyedToEC2Count ==
    Called =>
        /\ costs.migrationVMCount = costCalculation.customEC2Count
        /\ costs.migrationCostPerVM = ConfiguredCostPerVM
        /\ costs.migrationCost = costCalculation.customEC2Count * ConfiguredCostPerVM
        /\ costs.migrationVMCount = BareCall.migrationVMCount
        /\ costs.migrationCostPerVM = BareCall.migrationCostPerVM
        /\ costs.migrationCost = BareCall.migrationCost

(* A call that differs from the bare call in tier, selection, storage and  *)
(* additional costs, under a pricing configuration with no migration entry.*)
MigrationDefaultRateWitness ==
    /\ Called
    /\ "migrationPricing" \notin DOMAIN pricing
    /\ costs.migrationCost = 600
    /\ costCalculation.selectedConfig = "large"
    /\ costs.featuresInfrastructureCost > 0
    /\ costs.managedServicesStorageCost > 0
    /\ costs.additionalCostsTotal > 0

(* The same under a pricing configuration that sets its own rate. *)
MigrationConfiguredRateWitness ==
    /\ Called
    /\ "migrationPricing" \in DOMAIN pricing
    /\ costs.migrationCostPerVM # 300
    /\ costs.migrationCost = 2 * costs.migrationCostPerVM

(* calculateCosts on the caller's inputs with another additional-costs list. *)
WithAdditionalCosts(list) ==
    calculateCosts(Config, costCalculation.selectedFeatures,
                   costCalculation.customEC2Count, costCalculation.customStorageTB, list)

(* The fields an additional cost must leave alone. *)
AdditionalCostFrame ==
    BreakdownFields \ {"additionalCostsTotal", "totalProfessionalServicesCost",
                       "totalFirstYearCost"}

(* Breakdown with is breakdown without plus one additional cost of amount a. *)
RaisedBy(with, without, a) ==
    /\ with.additionalCostsTotal = without.additionalCostsTotal + a
    /\ with.totalProfessionalServicesCost = without.totalProfessionalServicesCost + a
    /\ with.totalFirstYearCost = without.totalFirstYearCost + a
    /\ \A k \in AdditionalCostFrame : with[k] = without[k]

AppendedAmounts == {0, 250, 1000}

Front(arr) == SubSeq(arr, 1, Len(arr) - 1)

(* C10: appending an additional cost of amount a >= 0 raises               *)
(* additionalCostsTotal, totalProfessionalServicesCost and                 *)
(* totalFirstYearCost by exactly a and leaves every infrastructure,        *)
(* migration and managed-services field and totalMonthlyCost unchanged:    *)
(* both for the last item of the caller's list against the list without    *)
(* it, and for any further item appended to the caller's list.             *)
AdditionalCostRaisesOneTimeTotals ==
    Called =>
        /\ Len(costCalculation.additionalCosts) > 0 =>
              RaisedBy(costs, WithAdditionalCosts(Front(costCalculation.additionalCosts)),
                       costCalculation.additionalCosts[Len(costCalculation.additionalCosts)].amount)
        /\ \A a \in AppendedAmounts :
              RaisedBy(WithAdditionalCosts(Append(costCalculation.additionalCosts,
                                                  [amount |-> a])),
                       costs, a)

AdditionalCostWitness ==
    /\ Called
    /\ Len(costCalculation.additionalCosts) > 0
    /\ costs.additionalCostsTotal = 250
    /\ costs.totalProfessionalServicesCost =
          costs.baseProfessionalServicesCost + costs.featuresProfessionalServicesCost + 250
    /\ costs.featuresProfessionalServicesCost > 0

(* The zero baseline of a tier: no features, no additional costs, no EC2   *)
(* instance, no storage.                                                   *)
ZeroBaseline(config) == calculateCosts(config, <<>>, 0, 0, <<>>)

IsZeroBaseline(breakdown, config) ==
    /\ breakdown.totalInfrastructureCost = config.baseInfraCostPerMonth
    /\ breakdown.totalProfessionalServicesCost = config.baseProfessionalServicesCost
    /\ breakdown.migrationCost = 0
    /\ breakdown.managedServicesEC2Cost = 0
    /\ breakdown.managedServicesStorageCost = 0
    /\ breakdown.totalManagedServicesCost = 0

ZeroInputs ==
    /\ costCalculation.selectedFeatures = <<>>
    /\ costCalculation.additionalCosts = <<>>
    /\ costCalculation.customEC2Count = 0
    /\ costCalculation.customStorageTB = 0

(* C11: with no selected features, no additional costs, ec2Count = 0 and   *)
(* storageTB = 0, calculateCosts returns for every tier an infrastructure  *)
(* total equal to the tier's baseInfraCostPerMonth, a                      *)
(* professional-services total equal to its baseProfessionalServicesCost,  *)
(* and 0 for migrationCost, managedServicesEC2Cost,                        *)
(* managedServicesStorageCost and totalManagedServicesCost.                *)
ZeroBaselineIsBase ==
    /\ (Called /\ ZeroInputs) => IsZeroBaseline(costs, Config)
    /\ \A i \in DOMAIN landingZoneConfigurations :
          IsZeroBaseline(ZeroBaseline(landingZoneConfigurations[i]),
                         landingZoneConfigurations[i])

ZeroBaselineWitness ==
    /\ Called
    /\ ZeroInputs
    /\ costCalculation.selectedConfig = "large"
    /\ costs.totalInfrastructureCost = 15000
    /\ costs.totalProfessionalServicesCost = 100000
    /\ costs.totalFirstYearCost = 15000 * 12 + 100000

(***************************************************************************)
(* SpecPricing: getFeaturePricing is called for one feature ID after       *)
(* another while the pricing cache is built, refreshed and cleared and     *)
(* time passes.                                                            *)
(***************************************************************************)
(* The IDs getFeaturePricing is asked for: catalog features with and       *)
(* without a service mapping, an ID the pricing configuration does not     *)
(* hold, and an ID that names a member of Object.prototype.                *)
QueryIds == SelectableIds \cup {"constructor"}

(* Mutant: the infrastructure cost returned is the cached one whenever a   *)
(* valid cache holds an entry for the feature, also an entry of 0.         *)
GetFeaturePricing_CachedWhenValid(featureId) ==
    /\ featurePrice' = [featureId |-> featureId,
                        price |-> IF isAWSPricingCacheValid
                                     /\ getCachedAWSPricing(featureId) # Null
                                  THEN Price(getCachedAWSPricing(featureId).value, 0)
                                  ELSE getFeaturePricing(featureId),
                        exists |-> pricingCache # NoCache,
                        valid |-> isAWSPricingCacheValid,
                        cached |-> getCachedAWSPricing(featureId)]
    /\ UNCHANGED <<selector, pricing, availableFeatures, landingZoneConfigurations, pricingCache, now,
                   costCalculation, costs, returned, refreshes, submissions, req, res>>

(* getFeaturePricing(featureId), with the answers of the cache at the time *)
(* of the call.                                                            *)
GetFeaturePricing(featureId) ==
    /\ featurePrice' = [featureId |-> featureId,
                        price |-> getFeaturePricing(featureId),
                        exists |-> pricingCache # NoCache,
                        valid |-> isAWSPricingCacheValid,
                        cached |-> getCachedAWSPricing(featureId)]
    /\ UNCHANGED <<selector, pricing, availableFeatures, landingZoneConfigurations, pricingCache, now,
                   costCalculation, costs, returned, refreshes, submissions, req, res>>

NextPricing ==
    \/ \E featureId \in QueryIds : GetFeaturePricing(featureId)
    \/ \E forceRefresh \in BOOLEAN : \E outcomes \in [MappedFeatureIds -> FetchOutcomes] :
          buildAWSPricingCache("us-east-2", forceRefresh, outcomes)
    \/ clearAWSPricingCache
    \/ Tick

SpecPricing == Init /\ [][NextPricing]_vars

Asked == featurePrice # NoPrice

HasEntry(featureId) == featureId \in DOMAIN pricing.featurePricing

(* C12 as claimed: getFeaturePricing(featureId) never fails: for a feature *)
(* ID that has no entry in the pricing configuration it returns            *)
(* infraCostImpact 0 and professionalServicesCostImpact 0, and for a known *)
(* ID it returns the configured static pair.                               *)
FeaturePricingTotalAsClaimed ==
    Asked =>
        IF HasEntry(featurePrice.featureId)
        THEN featurePrice.price = pricing.featurePricing[featurePrice.featureId]
        ELSE featurePrice.price = Price(0, 0)

(* getFeaturePricing was asked for an ID that has no entry but names a     *)
(* member of Object.prototype, and returned that member instead of the     *)
(* zero pair.                                                              *)
InheritedMemberWitness ==
    /\ Asked
    /\ ~HasEntry(featurePrice.featureId)
    /\ featurePrice.featureId \in ObjectPrototypeKeys
    /\ featurePrice.price # Price(0, 0)

(* C13 as claimed: when the pricing cache exists, is younger than the      *)
(* cache duration and holds an entry for feature f, getFeaturePricing(f)   *)
(* has the cached value as its infraCostImpact, also when that value is 0, *)
(* and the static catalog value as its professionalServicesCostImpact.     *)
LiveOverlayAsClaimed ==
    (Asked /\ featurePrice.valid /\ featurePrice.cached # Null) =>
        /\ featurePrice.price.infraCostImpact = featurePrice.cached.value
        /\ featurePrice.price.professionalServicesCostImpact =
              pricing.featurePricing[featurePrice.featureId].professionalServicesCostImpact

(* getFeaturePricing was asked for a feature while a valid cache held a    *)
(* live price for it, and returned the static infra cost.                  *)
LiveOverlayIgnoredWitness ==
    /\ Asked
    /\ featurePrice.featureId = "network-firewall"
    /\ featurePrice.valid
    /\ featurePrice.cached = [value |-> 430]
    /\ featurePrice.price.infraCostImpact = 300

(* C14: once the pricing cache is 24 hours old or older,                   *)
(* isAWSPricingCacheValid is false, and getFeaturePricing returns the      *)
(* static catalog infra cost of a feature whenever the cache is expired    *)
(* (whatever value the stale cache holds for it), no cache exists, or the  *)
(* cache has no entry for the feature.                                     *)
StaticFallback ==
    /\ (pricingCache # NoCache /\ now - pricingCache.lastUpdated >= CACHE_DURATION_MS)
          => ~isAWSPricingCacheValid
    /\ (Asked /\ HasEntry(featurePrice.featureId)
              /\ (~featurePrice.exists \/ ~featurePrice.valid \/ featurePrice.cached = Null))
          => featurePrice.price.infraCostImpact =
                pricing.featurePricing[featurePrice.featureId].infraCostImpact

(* getFeaturePricing was asked for a feature while the cache, 24 hours     *)
(* old, still held a live price for it that differs from the static one.   *)
StaticFallbackWitness ==
    /\ Asked
    /\ featurePrice.featureId = "network-firewall"
    /\ featurePrice.exists
    /\ ~featurePrice.valid
    /\ featurePrice.cached = [value |-> 430]
    /\ featurePrice.price.infraCostImpact = 300
    /\ pricingCache # NoCache
    /\ now - pricingCache.lastUpdated = CACHE_DURATION_MS

(***************************************************************************)
(* SpecRefresh: buildAWSPricingCache as it runs, one await after another.  *)
(* A call checks the existing cache, then prices the mapped features one   *)
(* by one into its local featurePricing, awaiting the fetches of each, and *)
(* assigns pricingCache after the last one. Calls of several callers,      *)
(* clearAWSPricingCache and calculateCosts interleave at the awaits. A     *)
(* build lasts seconds and the clock of the model ticks in half cache      *)
(* durations, so the clock stands still here; expiry is the subject of     *)
(* SpecService and SpecPricing.                                            *)
(***************************************************************************)
(* The inputs of the calculateCosts calls made while builds run. *)
RefreshInputs ==
    { [selectedConfig |-> "medium",
       selectedFeatures |-> <<"network-firewall", "guardduty">>,
       customEC2Count |-> 2, customStorageTB |-> 1,
       additionalCosts |-> <<[amount |-> 250]>>] }

Refreshing(r) == refreshes[r].pc = "fetching"

(* const featurePricing = {} *)
NoEntries == [id \in {} |-> Null]

(* featurePricing[mapping.featureId] = {infraCostImpact, source, ...} on   *)
(* the entries priced so far.                                              *)
withEntry(entries, mapping, region, outcome) ==
    [id \in DOMAIN entries \cup {mapping.featureId} |->
        IF id = mapping.featureId
        THEN [infraCostImpact |->
                  aggregateFeaturePricing(mapping.featureId, mapping.awsOfferCode, outcome),
              source |-> "aws-pricing-api",
              lastUpdated |-> now,
              region |-> region]
        ELSE entries[id]]

(* Mutant: the build writes each entry into the shared cache as soon as it *)
(* is priced instead of assigning the cache once at the end.               *)
publishedCache_EachEntry(complete, entries) ==
    [lastUpdated |-> now, featurePricing |-> entries]

(* Mutant: the build keeps the entries the cache already holds and adds    *)
(* only those that are missing.                                            *)
publishedCache_KeepOld(complete, entries) ==
    IF complete
    THEN [lastUpdated |-> now,
          featurePricing |->
             [id \in DOMAIN entries |->
                 IF pricingCache # NoCache /\ id \in DOMAIN pricingCache.featurePricing
                 THEN pricingCache.featurePricing[id]
                 ELSE entries[id]]]
    ELSE pricingCache

(* The value of pricingCache after an entry has been added to the local    *)
(* entries: the new cache once the loop has ended, the cache as it is      *)
(* until then.                                                             *)
publishedCache(complete, entries) ==
    IF complete
    THEN [lastUpdated |-> now, featurePricing |-> entries]
    ELSE pricingCache

(* Mutant: a valid cache is returned at once even when the refresh is      *)
(* forced.                                                                 *)
StartRefresh_IgnoreForce(r, region, forceRefresh) ==
    /\ refreshes[r] = Idle
    /\ IF isAWSPricingCacheValid
       THEN refreshes' = [refreshes EXCEPT ![r] = [pc |-> "done", failed |-> {}]]
       ELSE refreshes' = [refreshes EXCEPT ![r] =
                             [pc |-> "fetching", region |-> region, index |-> 1,
                              featurePricing |-> NoEntries, failed |-> {}]]
    /\ UNCHANGED <<selector, pricing, availableFeatures, landingZoneConfigurations, pricingCache, now,
                   costCalculation, costs, returned, featurePrice,
                   submissions, req, res>>

(* buildAWSPricingCache up to its first await: a valid cache is returned   *)
(* at once unless the refresh is forced; otherwise the loop is entered.    *)
StartRefresh(r, region, forceRefresh) ==
    /\ refreshes[r] = Idle
    /\ IF ~forceRefresh /\ isAWSPricingCacheValid
       THEN refreshes' = [refreshes EXCEPT ![r] = [pc |-> "done", failed |-> {}]]
       ELSE refreshes' = [refreshes EXCEPT ![r] =
                             [pc |-> "fetching", region |-> region, index |-> 1,
                              featurePricing |-> NoEntries, failed |-> {}]]
    /\ UNCHANGED <<selector, pricing, availableFeatures, landingZoneConfigurations, pricingCache, now,
                   costCalculation, costs, returned, featurePrice,
                   submissions, req, res>>

(* The awaited aggregateFeaturePricing of the current mapping settles with *)
(* the given outcome; its entry is recorded, and after the last mapping    *)
(* the cache is assigned and the call returns.                             *)
FetchNext(r, outcome) ==
    /\ Refreshing(r)
    /\ LET call == refreshes[r]
           mapping == serviceMapping[call.index]
           entries == withEntry(call.featurePricing, mapping, call.region, outcome)
           failed == IF outcome = "fetch-failed"
                     THEN call.failed \cup {mapping.featureId}
                     ELSE call.failed
           complete == call.index = Len(serviceMapping)
       IN /\ pricingCache' = publishedCache(complete, entries)
          /\ refreshes' = [refreshes EXCEPT ![r] =
                              IF complete
                              THEN [pc |-> "done", failed |-> failed]
                              ELSE [call EXCEPT !.index = call.index + 1,
                                                !.featurePricing = entries,
                                                !.failed = failed]]
    /\ UNCHANGED <<selector, pricing, availableFeatures, landingZoneConfigurations, now,
                   costCalculation, costs, returned, featurePrice,
                   submissions, req, res>>

(* The caller resumes after its await of buildAWSPricingCache              *)
(* (initializeAWSPricingCache logs the success).                           *)
Resume(r) ==
    /\ refreshes[r].pc = "done"
    /\ refreshes' = [refreshes EXCEPT ![r] = Idle]
    /\ UNCHANGED <<selector, pricing, availableFeatures, landingZoneConfigurations, pricingCache, now,
                   costCalculation, costs, returned, featurePrice,
                   submissions, req, res>>

NextRefresh ==
    \/ \E r \in Refreshers : \E forceRefresh \in BOOLEAN :
          StartRefresh(r, "us-east-2", forceRefresh)
    \/ \E r \in Refreshers : \E outcome \in FetchOutcomes : FetchNext(r, outcome)
    \/ \E r \in Refreshers : Resume(r)
    \/ \E c \in RefreshInputs : CalculateCosts(c)
    \/ clearAWSPricingCache

SpecRefresh == Init /\ [][NextRefresh]_vars

(* The step with which the build of caller r assigns the cache and returns. *)
Completes(r) == Refreshing(r) /\ refreshes'[r].pc = "done"

(* A step of the build of caller r that leaves it in flight: its start or  *)
(* the settling of a fetch that is not the last.                           *)
StaysInFlight(r) == refreshes'[r] # refreshes[r] /\ refreshes'[r].pc = "fetching"

(* C15 as claimed: if a refresh by buildAWSPricingCache meets a failed     *)
(* fetch of the price index or of a service's pricing, the pricing cache   *)
(* after the refresh is what it was before (same entries and same          *)
(* lastUpdated, or still absent), and the build returns without an error.  *)
FailedRefreshKeepsCacheAsClaimed ==
    [][\A r \in Refreshers :
          (Completes(r) /\ refreshes'[r].failed # {}) =>
              pricingCache' = pricingCache]_vars

(* A build in which the fetches of GuardDuty failed has returned normally, *)
(* and the cache holds a fresh entry of 0 for GuardDuty.                   *)
FailedRefreshWitness ==
    \E r \in Refreshers :
        /\ refreshes[r].pc = "done"
        /\ "guardduty" \in refreshes[r].failed
        /\ pricingCache # NoCache
        /\ pricingCache.lastUpdated = now
        /\ pricingCache.featurePricing["guardduty"].infraCostImpact = 0

(* C16 as claimed: a feature whose live price could not be built because   *)
(* of an error is treated as having no cache entry: once the build has     *)
(* assigned the cache, getCachedAWSPricing returns null for that feature   *)
(* (so that its static infra cost is used) rather than a cached infra cost *)
(* of 0.                                                                   *)
FailedFeatureHasNoEntryAsClaimed ==
    [][\A r \in Refreshers :
          Completes(r) =>
              \A featureId \in refreshes'[r].failed :
                  (getCachedAWSPricing(featureId) = Null)']_vars

(* A build in which the fetches of Network Firewall failed has returned,   *)
(* and getCachedAWSPricing answers 0 for Network Firewall, whose static    *)
(* infra cost is 300.                                                      *)
FailedFeatureWitness ==
    \E r \in Refreshers :
        /\ refreshes[r].pc = "done"
        /\ "network-firewall" \in refreshes[r].failed
        /\ getCachedAWSPricing("network-firewall") = [value |-> 0]
        /\ getFeaturePricing("network-firewall").infraCostImpact = 300

(* C17: while a buildAWSPricingCache refresh is in flight,                 *)
(* getCachedAWSPricing and isAWSPricingCacheValid answer from the cache as *)
(* it was before: no step of a build that leaves the build in flight       *)
(* changes the cache or any answer of the two readers, the cache is at     *)
(* every moment absent or complete (an entry for every mapped feature),    *)
(* and calculateCosts can be called and returns while a build is in        *)
(* flight.                                                                 *)
NoPartialCacheVisible ==
    /\ [](pricingCache = NoCache
            \/ DOMAIN pricingCache.featurePricing = MappedFeatureIds)
    /\ [][\A r \in Refreshers :
             StaysInFlight(r) =>
                 /\ pricingCache' = pricingCache
                 /\ isAWSPricingCacheValid' = isAWSPricingCacheValid
                 /\ \A featureId \in MappedFeatureIds :
                       getCachedAWSPricing(featureId)' = getCachedAWSPricing(featureId)]_vars
    /\ []((\E r \in Refreshers : Refreshing(r)) =>
             \A c \in RefreshInputs : ENABLED CalculateCosts(c))

(* A build is in flight and has priced Network Firewall at 430 in its      *)
(* local entries while the cache still answers 0 for it from an earlier    *)
(* build, and calculateCosts has been called.                              *)
InFlightWitness ==
    /\ \E r \in Refreshers :
          /\ Refreshing(r)
          /\ refreshes[r].index = 3
          /\ refreshes[r].featurePricing["network-firewall"].infraCostImpact = 430
    /\ getCachedAWSPricing("network-firewall") = [value |-> 0]
    /\ isAWSPricingCacheValid
    /\ Called
    /\ costCalculation \in RefreshInputs

(* A step that builds, refreshes or clears the cache, or lets time pass    *)
(* (through which a cache expires).                                        *)
CacheOrClockStep == pricingCache' # pricingCache \/ now' # now

SubmittedSizes == TierSizes \cup {"huge"}

(* The submissionMetrics a client sends: without a totalEstimatedCost      *)
(* (the field is optional on insert) or with one of its own.               *)
SubmittedMetrics ==
    {[sessionId |-> "session"],
     [sessionId |-> "session", totalEstimatedCost |-> 1]}

(* Text is a sequence of characters, so that its case and its substrings   *)
(* can be told.                                                            *)
Ab == <<"A", "b">>

Cd == <<"C", "d">>

(* The presalesInfo a client sends: every field of it is optional. *)
SubmittedPresalesInfo == {[endCustomerName |-> "customer", partnerName |-> Ab]}

(* A body the schema rejects (no costCalculation). *)
MalformedBody == [presalesInfo |-> "none"]

(* The request bodies. *)
Bodies ==
    [costCalculation :
        [selectedConfig : SubmittedSizes,
         selectedFeatures : {<<"guardduty">>},
         customEC2Count : {2},
         customStorageTB : {1},
         additionalCosts : {<<>>, <<[amount |-> 250]>>}],
     presalesInfo : SubmittedPresalesInfo,
     submissionMetrics : SubmittedMetrics]
    \cup {MalformedBody}

(* insertLandingZoneSubmissionSchema.parse(req.body) succeeds. *)
parses(body) ==
    /\ "costCalculation" \in DOMAIN body
    /\ "submissionMetrics" \in DOMAIN body

(* The call the handler makes: calculateCosts with four arguments, so that *)
(* its fifth parameter additionalCosts takes its default, the empty list.  *)
costBreakdownInputs(validatedData) ==
    [selectedConfig |-> validatedData.costCalculation.selectedConfig,
     selectedFeatures |-> validatedData.costCalculation.selectedFeatures,
     customEC2Count |-> validatedData.costCalculation.customEC2Count,
     customStorageTB |-> validatedData.costCalculation.customStorageTB,
     additionalCosts |-> <<>>]

costBreakdown(validatedData) == Calculate(costBreakdownInputs(validatedData))

(* Mutant: the ID may be one a stored submission already has. *)
randomUUID_Reused ==
    IF submissions = NoSubmissions THEN Cardinality(DOMAIN submissions) + 1
    ELSE CHOOSE id \in DOMAIN submissions : TRUE

(* randomUUID(): an ID no stored submission has. IDs are numbered in the   *)
(* order of their creation, which is the insertion order of the Map.       *)
randomUUID == Cardinality(DOMAIN submissions) + 1

(* submissionToStore as MemStorage.createSubmission stores it: the         *)
(* validated data with the server-computed metrics, the new ID and the     *)
(* time of submission.                                                     *)
storedSubmission(validatedData, selectedConfig, submissionId) ==
    [costCalculation |-> validatedData.costCalculation,
     presalesInfo |-> validatedData.presalesInfo,
     submissionMetrics |->
        [sessionId |-> validatedData.submissionMetrics.sessionId,
         configurationSize |-> selectedConfig.size,
         totalFeaturesSelected |-> Len(validatedData.costCalculation.selectedFeatures),
         totalEstimatedCost |-> costBreakdown(validatedData).totalFirstYearCost,
         submissionId |-> submissionId,
         submittedAt |-> now]]

(* app.post('/api/submissions', ...) *)
PostSubmission(body) ==
    /\ Cardinality(DOMAIN submissions) < MaxSubmissions
    /\ req' = body
    /\ IF ~parses(body)
       THEN /\ res' = [status |-> 400, body |-> [error |-> "Validation failed"]]
            /\ UNCHANGED <<submissions, returned>>
       ELSE LET selectedConfig == findConfig(body.costCalculation.selectedConfig)
            IN IF selectedConfig = Undefined
               THEN /\ res' = [status |-> 400,
                               body |-> [error |-> "Invalid configuration size selected"]]
                    /\ UNCHANGED <<submissions, returned>>
               ELSE LET submissionId == randomUUID
                        stored == storedSubmission(body, selectedConfig, submissionId)
                    IN /\ returned' = returned \cup
                              {[inputs |-> costBreakdownInputs(body),
                                costs |-> costBreakdown(body),
                                cached |-> isAWSPricingCacheValid]}
                       /\ submissions' =
                              [id \in DOMAIN submissions \cup {submissionId} |->
                                  IF id = submissionId THEN stored ELSE submissions[id]]
                       /\ res' = [status |-> 201,
                                  body |-> [success |-> TRUE,
                                            submissionId |-> submissionId,
                                            estimatedCost |->
                                                costBreakdown(body).totalFirstYearCost]]
    /\ UNCHANGED <<selector, pricing, availableFeatures, landingZoneConfigurations, pricingCache, now,
                   costCalculation, costs, featurePrice, refreshes>>

NextSubmissions == \E body \in Bodies : PostSubmission(body)

SpecSubmissions == Init /\ [][NextSubmissions]_vars

Answered == res # NoResponse

(* C19: POST /api/submissions whose selectedConfig is not one of the four  *)
(* tier sizes is answered with status 400 and error 'Invalid configuration *)
(* size selected'; calculateCosts is not invoked for it and the submission *)
(* store is unchanged.                                                     *)
InvalidSizeRejected ==
    [][\A body \in Bodies :
          (/\ PostSubmission(body)
           /\ parses(body)
           /\ body.costCalculation.selectedConfig \notin TierSizes) =>
              /\ res'.status = 400
              /\ res'.body = [error |-> "Invalid configuration size selected"]
              /\ returned' = returned
              /\ submissions' = submissions]_vars

(* A request with a size that is no tier has been rejected after another   *)
(* request had been accepted and stored.                                   *)
InvalidSizeWitness ==
    /\ Answered
    /\ parses(req)
    /\ req.costCalculation.selectedConfig = "huge"
    /\ res.status = 400
    /\ res.body = [error |-> "Invalid configuration size selected"]
    /\ Cardinality(DOMAIN submissions) = 1
    /\ Cardinality(returned) = 1

(* C20 as claimed: for every accepted submission, the estimatedCost in the *)
(* response and the totalEstimatedCost stored with the record both equal   *)
(* the totalFirstYearCost that calculateCosts gives for the submitted      *)
(* tier, selected features, EC2 count, storage TB and additional costs     *)
(* list; a totalEstimatedCost sent by the client is overwritten.           *)
EstimatedCostAsClaimed ==
    (Answered /\ res.status = 201) =>
        LET total == Calculate(req.costCalculation).totalFirstYearCost
            record == submissions[res.body.submissionId]
        IN /\ res.body.estimatedCost = total
           /\ record.submissionMetrics.totalEstimatedCost = total

(* A submission with an additional cost of 250 has been accepted, and the  *)
(* estimate returned and stored is the first-year total without it.        *)
EstimatedCostWitness ==
    /\ Answered
    /\ res.status = 201
    /\ req.costCalculation.additionalCosts = <<[amount |-> 250]>>
    /\ "totalEstimatedCost" \in DOMAIN req.submissionMetrics
    /\ res.body.estimatedCost + 250 = Calculate(req.costCalculation).totalFirstYearCost
    /\ submissions[res.body.submissionId].submissionMetrics.totalEstimatedCost
          = res.body.estimatedCost

ConcurrentRefreshLastWins ==
    /\ [][\A r \in Refreshers :
             Completes(r) =>
                 /\ DOMAIN pricingCache'.featurePricing = MappedFeatureIds
                 /\ \A id \in DOMAIN refreshes[r].featurePricing :
                       pricingCache'.featurePricing[id] = refreshes[r].featurePricing[id]
                 /\ \E outcomes \in [MappedFeatureIds -> FetchOutcomes] :
                       pricingCache' = builtCache(refreshes[r].region, outcomes, now)]_vars
    /\ [][pricingCache' # pricingCache =>
             \/ \E r \in Refreshers : Completes(r)
             \/ pricingCache' = NoCache]_vars

(* One refresh has returned while the other is still in flight: the cache  *)
(* is the complete result of the first, with live prices for GuardDuty and *)
(* Network Firewall, while the second holds entries of 0 for both in its   *)
(* locals.                                                                 *)
ConcurrentRefreshWitness ==
    /\ refreshes[2].pc = "done"
    /\ refreshes[2].failed = {}
    /\ Refreshing(1)
    /\ refreshes[1].index = Len(serviceMapping)
    /\ refreshes[1].failed = {"guardduty", "network-firewall"}
    /\ pricingCache # NoCache
    /\ pricingCache.featurePricing["guardduty"].infraCostImpact > 0
    /\ pricingCache.featurePricing["network-firewall"].infraCostImpact > 0

(***************************************************************************)
(* SpecRebuild: one caller builds and rebuilds the cache, forced or not,   *)
(* as time passes; time may pass during a build as well.                   *)
(***************************************************************************)
(* The outcomes of the fetches of these builds. *)
RebuildOutcomes == {"ok", "fetch-failed"}

NextRebuild ==
    \/ \E forceRefresh \in BOOLEAN : StartRefresh(1, "us-east-2", forceRefresh)
    \/ \E outcome \in RebuildOutcomes : FetchNext(1, outcome)
    \/ Resume(1)
    \/ Tick

SpecRebuild == Init /\ [][NextRebuild]_vars

(* C25: buildAWSPricingCache called without force returns the existing     *)
(* cache unchanged and performs no fetch whenever a cache exists that is   *)
(* younger than 24 hours; called with forceRefresh = true, or when no      *)
(* cache exists, or when the cache is 24 hours old or older, it builds a   *)
(* new cache, replaces the old one and sets lastUpdated to the time of the *)
(* rebuild.                                                                *)
BuildHonoursCache ==
    /\ [][\A forceRefresh \in BOOLEAN : StartRefresh(1, "us-east-2", forceRefresh) =>
             IF /\ ~forceRefresh
                /\ pricingCache # NoCache
                /\ now - pricingCache.lastUpdated < 24 * 60 * 60 * 1000
             THEN /\ refreshes'[1].pc = "done"
                  /\ pricingCache' = pricingCache
             ELSE /\ refreshes'[1].pc = "fetching"
                  /\ refreshes'[1].index = 1
                  /\ refreshes'[1].featurePricing = NoEntries]_vars
    /\ [][(Refreshing(1) /\ StaysInFlight(1)) =>
             /\ refreshes'[1].index = refreshes[1].index + 1
             /\ pricingCache' = pricingCache]_vars
    /\ [][Completes(1) =>
             /\ refreshes[1].index = Len(serviceMapping)
             /\ pricingCache'.lastUpdated = now
             /\ DOMAIN pricingCache'.featurePricing = MappedFeatureIds
             /\ \A id \in DOMAIN refreshes[1].featurePricing :
                   pricingCache'.featurePricing[id] = refreshes[1].featurePricing[id]]_vars
    /\ [](Refreshing(1) => ENABLED (\E outcome \in RebuildOutcomes : FetchNext(1, outcome)))

(* A build has just returned a cache that it made 24 hours after module    *)
(* load, every entry of it fetched at that time.                           *)
RebuildWitness ==
    /\ refreshes[1].pc = "done"
    /\ pricingCache # NoCache
    /\ pricingCache.lastUpdated = CACHE_DURATION_MS
    /\ now = CACHE_DURATION_MS
    /\ \A id \in MappedFeatureIds :
          pricingCache.featurePricing[id].lastUpdated = CACHE_DURATION_MS

(***************************************************************************)
(* The submission store in use. In SpecReports submissions are posted and  *)
(* stored while time passes and GET /api/submissions reports on them under *)
(* every query; in SpecStorage the other reads and the refreshes of the    *)
(* pricing cache go on as well.                                            *)
(***************************************************************************)
(* String.prototype.toLowerCase, on the letters the model's texts use. *)
toLowerCase(text) ==
    [i \in DOMAIN text |->
        CASE text[i] = "A" -> "a"
          [] text[i] = "B" -> "b"
          [] text[i] = "C" -> "c"
          [] text[i] = "D" -> "d"
          [] OTHER -> text[i]]

(* String.prototype.includes *)
includes(text, part) ==
    \E k \in 0..(Len(text) - Len(part)) : SubSeq(text, k + 1, k + Len(part)) = part

(* Array.from(this.submissions.values()): the records in insertion order. *)
values(map) == [i \in 1..Cardinality(DOMAIN map) |-> map[i]]

(* Array.prototype.slice(0, n) *)
slice(arr, n) == SubSeq(arr, 1, IF n < Len(arr) THEN n ELSE Len(arr))

(* Array.prototype.sort with the comparator (a, b) => key(b) - key(a): a   *)
(* stable sort, largest key first.                                         *)
sortDescending(arr, key(_)) ==
    LET position(i) ==
            1 + Cardinality({j \in DOMAIN arr :
                                \/ key(arr[j]) > key(arr[i])
                                \/ key(arr[j]) = key(arr[i]) /\ j < i})
    IN [p \in DOMAIN arr |-> arr[CHOOSE i \in DOMAIN arr : position(i) = p]]

submittedAt(s) == s.submissionMetrics.submittedAt

(* The requests that are stored and reported on. *)
ReportedBodies ==
    {[costCalculation |->
          [selectedConfig |-> c[1], selectedFeatures |-> <<"guardduty">>,
           customEC2Count |-> 2, customStorageTB |-> 1, additionalCosts |-> <<>>],
      presalesInfo |-> c[2],
      submissionMetrics |-> [sessionId |-> "session"]] :
       c \in {<<"small", [endCustomerName |-> "customer", partnerName |-> Ab]>>,
              <<"large", [endCustomerName |-> "customer", partnerName |-> Cd]>>,
              <<"small", [endCustomerName |-> "customer"]>>}}

HalfDay == CACHE_DURATION_MS \div 2

(* No query parameter is given. *)
NoQuery == [parameter \in {} |-> ""]

(* The query strings of GET /api/submissions. *)
Queries ==
    {NoQuery,
     [configurationSize |-> "small"],
     [partnerName |-> <<"B">>],
     [dateFrom |-> HalfDay],
     [dateTo |-> 0],
     [limit |-> 0],
     [limit |-> 1],
     [limit |-> 101],
     [configurationSize |-> "small", limit |-> 1]}

(* The filters the route builds from the query: every parameter given is   *)
(* copied, the limit only if it is a number above 0, capped at 100.        *)
routeFilters(query) ==
    [f \in {g \in DOMAIN query : g = "limit" => query.limit > 0} |->
        IF f = "limit"
        THEN (IF query.limit < 100 THEN query.limit ELSE 100)
        ELSE query[f]]

(* The records left by the configurationSize filter. *)
filteredBySize(filters) ==
    LET all == values(submissions)
    IN IF "configurationSize" \in DOMAIN filters
       THEN SelectSeq(all, LAMBDA s :
                s.submissionMetrics.configurationSize = filters.configurationSize)
       ELSE all

(* s.presalesInfo.partnerName.toLowerCase() throws a TypeError for a       *)
(* record without a partnerName (the field is optional).                   *)
getSubmissionsThrows(filters) ==
    /\ "partnerName" \in DOMAIN filters
    /\ \E i \in DOMAIN filteredBySize(filters) :
          "partnerName" \notin DOMAIN filteredBySize(filters)[i].presalesInfo

(* MemStorage.getSubmissions(filters), when it does not throw: the filters *)
(* are applied in turn, then the limit, then the sort.                     *)
getSubmissions(filters) ==
    LET byPartner ==
            IF "partnerName" \in DOMAIN filters
            THEN SelectSeq(filteredBySize(filters), LAMBDA s :
                     includes(toLowerCase(s.presalesInfo.partnerName),
                              toLowerCase(filters.partnerName)))
            ELSE filteredBySize(filters)
        byDateFrom ==
            IF "dateFrom" \in DOMAIN filters
            THEN SelectSeq(byPartner, LAMBDA s : submittedAt(s) >= filters.dateFrom)
            ELSE byPartner
        byDateTo ==
            IF "dateTo" \in DOMAIN filters
            THEN SelectSeq(byDateFrom, LAMBDA s : submittedAt(s) <= filters.dateTo)
            ELSE byDateFrom
        limited ==
            IF "limit" \in DOMAIN filters
            THEN slice(byDateTo, filters.limit)
            ELSE byDateTo
    IN sortDescending(limited, submittedAt)

(* app.get('/api/submissions', ...) *)
GetSubmissions(query) ==
    /\ req' = [query |-> query]
    /\ IF getSubmissionsThrows(routeFilters(query))
       THEN res' = [status |-> 500,
                    body |-> [error |->
                                 "Internal server error while retrieving submissions"]]
       ELSE LET found == getSubmissions(routeFilters(query))
            IN res' = [status |-> 200,
                       body |-> [success |-> TRUE, count |-> Len(found),
                                 submissions |-> found]]
    /\ UNCHANGED <<selector, pricing, availableFeatures, landingZoneConfigurations, pricingCache, now,
                   costCalculation, costs, returned, featurePrice, refreshes,
                   submissions>>

(* The key under which a record is counted in partnerCounts: a missing     *)
(* partnerName is counted under the key "undefined".                       *)
partnerKey(s) ==
    IF "partnerName" \in DOMAIN s.presalesInfo
    THEN s.presalesInfo.partnerName
    ELSE <<"u", "n", "d", "e", "f", "i", "n", "e", "d">>

(* The numbers of a set, smallest first. *)
Ascending(S) ==
    [p \in 1..Cardinality(S) |->
        CHOOSE i \in S : Cardinality({j \in S : j < i}) = p - 1]

count(entry) == entry.count

(* s.submissionMetrics.submittedAt >= new Date(now.getTime() - days), with *)
(* the days counted in seconds: the comparison of milliseconds is made on  *)
(* quotient and remainder, which stay within 32 bits.                      *)
submittedSince(s, seconds) ==
    LET age == now - submittedAt(s)
    IN \/ age \div 1000 < seconds
       \/ age \div 1000 = seconds /\ age % 1000 = 0

(* MemStorage.getSubmissionStats(). The average is kept as the exact       *)
(* quotient of its dividend and divisor.                                   *)
getSubmissionStats ==
    LET all == values(submissions)
        totalSubmissions == Len(all)
        sizes == {all[i].submissionMetrics.configurationSize : i \in DOMAIN all}
        totalEstimatedValue ==
            SumOver(all, LAMBDA s : s.submissionMetrics.totalEstimatedCost)
        firsts == {i \in DOMAIN all :
                      \A j \in 1..(i - 1) : partnerKey(all[j]) # partnerKey(all[i])}
        entries ==
            [p \in 1..Cardinality(firsts) |->
                LET name == partnerKey(all[Ascending(firsts)[p]])
                IN [name |-> name,
                    count |-> Cardinality({i \in DOMAIN all : partnerKey(all[i]) = name})]]
        oneWeek == 7 * 24 * 60 * 60
        oneMonth == 30 * 24 * 60 * 60
    IN IF totalSubmissions = 0
       THEN [totalSubmissions |-> 0,
             submissionsByConfig |-> [size \in {} |-> 0],
             totalEstimatedValue |-> 0,
             averageEstimatedValue |-> [dividend |-> 0, divisor |-> 1],
             topPartners |-> <<>>,
             submissionsLastWeek |-> 0,
             submissionsLastMonth |-> 0]
       ELSE [totalSubmissions |-> totalSubmissions,
             submissionsByConfig |->
                [size \in sizes |->
                    Cardinality({i \in DOMAIN all :
                                    all[i].submissionMetrics.configurationSize = size})],
             totalEstimatedValue |-> totalEstimatedValue,
             averageEstimatedValue |->
                [dividend |-> totalEstimatedValue, divisor |-> totalSubmissions],
             topPartners |-> slice(sortDescending(entries, count), 5),
             submissionsLastWeek |->
                Len(SelectSeq(all, LAMBDA s : submittedSince(s, oneWeek))),
             submissionsLastMonth |->
                Len(SelectSeq(all, LAMBDA s : submittedSince(s, oneMonth)))]

(* app.get('/api/submissions/stats', ...) *)
GetSubmissionStats ==
    /\ req' = [path |-> "stats"]
    /\ res' = [status |-> 200, body |-> [success |-> TRUE, stats |-> getSubmissionStats]]
    /\ UNCHANGED <<selector, pricing, availableFeatures, landingZoneConfigurations, pricingCache, now,
                   costCalculation, costs, returned, featurePrice, refreshes,
                   submissions>>

(* MemStorage.getSubmissionById(id): this.submissions.get(id) *)
getSubmissionById(id) ==
    IF id \in DOMAIN submissions THEN submissions[id] ELSE Undefined

(* app.get('/api/submissions/:id', ...); the route matches no empty id. *)
GetSubmissionById(id) ==
    /\ req' = [params |-> [id |-> id]]
    /\ LET submission == getSubmissionById(id)
       IN IF submission = Undefined
          THEN res' = [status |-> 404, body |-> [error |-> "Submission not found"]]
          ELSE res' = [status |-> 200,
                       body |-> [success |-> TRUE, submission |-> submission]]
    /\ UNCHANGED <<selector, pricing, availableFeatures, landingZoneConfigurations, pricingCache, now,
                   costCalculation, costs, returned, featurePrice, refreshes,
                   submissions>>

(* The outcome of the fetches of the refreshes made while the store is in  *)
(* use.                                                                    *)
AllFetched == [id \in MappedFeatureIds |-> "ok"]

NextReports ==
    \/ \E body \in ReportedBodies : PostSubmission(body)
    \/ \E query \in Queries : GetSubmissions(query)
    \/ Tick

SpecReports == Init /\ [][NextReports]_vars

(* The queries made while the cache is refreshed. *)
StorageQueries == {NoQuery, [partnerName |-> <<"B">>], [limit |-> 1]}

NextStorage ==
    \/ \E body \in ReportedBodies : PostSubmission(body)
    \/ \E query \in StorageQueries : GetSubmissions(query)
    \/ GetSubmissionStats
    \/ \E id \in 1..MaxSubmissions : GetSubmissionById(id)
    \/ buildAWSPricingCache("us-east-2", TRUE, AllFetched)
    \/ Tick

SpecStorage == Init /\ [][NextStorage]_vars

(* C21: once a submission is stored, its selection inputs and its          *)
(* totalEstimatedCost never change: later submissions, the reads           *)
(* getSubmissions, getSubmissionStats and getSubmissionById, and refreshes *)
(* of the pricing cache leave every stored record as it was created.       *)
StoredRecordsNeverChange ==
    [][\A id \in DOMAIN submissions :
          /\ id \in DOMAIN submissions'
          /\ submissions'[id] = submissions[id]]_vars

(* Two submissions are stored, the cache has been built after the first    *)
(* was stored, and a read has answered with both records. *)
StoredRecordsWitness ==
    /\ Cardinality(DOMAIN submissions) = 2
    /\ pricingCache # NoCache
    /\ pricingCache.lastUpdated > submittedAt(submissions[1])
    /\ "query" \in DOMAIN req
    /\ res.status = 200
    /\ res.body.count = 2
    /\ submittedAt(submissions[2]) > submittedAt(submissions[1])
    /\ submissions[1].submissionMetrics.totalEstimatedCost
          = costBreakdown(submissions[1]).totalFirstYearCost

(* The stored records that match every filter given. *)
Matching(filters) ==
    {id \in DOMAIN submissions :
        LET s == submissions[id]
        IN /\ "configurationSize" \in DOMAIN filters =>
                s.submissionMetrics.configurationSize = filters.configurationSize
           /\ "partnerName" \in DOMAIN filters =>
                /\ "partnerName" \in DOMAIN s.presalesInfo
                /\ includes(toLowerCase(s.presalesInfo.partnerName),
                            toLowerCase(filters.partnerName))
           /\ "dateFrom" \in DOMAIN filters => submittedAt(s) >= filters.dateFrom
           /\ "dateTo" \in DOMAIN filters => submittedAt(s) <= filters.dateTo}

Reported == "query" \in DOMAIN req /\ res.status = 200

(* C29 as claimed: getSubmissions returns the submissions matching all     *)
(* given filters, ordered by submittedAt with the most recent first; with  *)
(* a limit N (capped at 100 by the route) it returns the N most recent     *)
(* matching submissions, never more than N.                                *)
MostRecentFirstAsClaimed ==
    Reported =>
        LET filters == routeFilters(req.query)
            found == res.body.submissions
            ids == {found[i].submissionMetrics.submissionId : i \in DOMAIN found}
            matching == Matching(filters)
            expected == IF "limit" \in DOMAIN filters /\ filters.limit < Cardinality(matching)
                        THEN filters.limit
                        ELSE Cardinality(matching)
        IN /\ \A i \in DOMAIN found :
                /\ found[i].submissionMetrics.submissionId \in matching
                /\ found[i] = submissions[found[i].submissionMetrics.submissionId]
           /\ Cardinality(ids) = Len(found)
           /\ Len(found) = expected
           /\ \A i, j \in DOMAIN found : i < j => submittedAt(found[i]) >= submittedAt(found[j])
           /\ \A id \in matching \ ids : \A i \in DOMAIN found :
                submittedAt(submissions[id]) <= submittedAt(found[i])

(* Two submissions are stored, the second later than the first, and a      *)
(* query with limit 1 that both match has been answered with the earlier   *)
(* one.                                                                    *)
OldestReturnedWitness ==
    /\ Reported
    /\ req.query = [limit |-> 1]
    /\ Cardinality(DOMAIN submissions) = 2
    /\ submittedAt(submissions[2]) > submittedAt(submissions[1])
    /\ res.body.submissions = <<submissions[1]>>

(***************************************************************************)
(* SpecForm: the intake form. The user picks a tier on its card, ticks and *)
(* unticks the checkboxes FeatureSelector shows for the tier, and moves    *)
(* the two sliders of the cost calculator. The form's state is             *)
(* costCalculation.                                                        *)
(***************************************************************************)
(* const selectedConfiguration = landingZoneConfigurations.find(...) *)
selectedConfiguration == findConfig(costCalculation.selectedConfig)

(* Mutant: a tier's pre-selection is everything the tier offers. *)
defaultSelection_Available(config) == config.availableFeatures

(* setSelectedFeatures(config.mandatoryFeatures) *)
defaultSelection(config) == config.mandatoryFeatures

(* handleConfigSelection(value) *)
handleConfigSelection(value) ==
    /\ LET config == findConfig(value)
       IN IF config # Undefined
          THEN costCalculation' =
                  [costCalculation EXCEPT !.selectedConfig = value,
                                          !.customEC2Count = config.defaultVMs,
                                          !.customStorageTB = config.defaultStorageTB,
                                          !.selectedFeatures = defaultSelection(config)]
          ELSE costCalculation' = [costCalculation EXCEPT !.selectedConfig = value]
    /\ UNCHANGED <<selector, pricing, availableFeatures, landingZoneConfigurations, pricingCache, now,
                   costs, returned, featurePrice, refreshes, submissions, req, res>>

(* handleFeatureToggle(featureId, enabled) *)
handleFeatureToggle(featureId, enabled) ==
    /\ costCalculation' =
          [costCalculation EXCEPT !.selectedFeatures =
              IF enabled
              THEN Append(@, featureId)
              ELSE SelectSeq(@, LAMBDA id : id # featureId)]
    /\ UNCHANGED <<selector, pricing, availableFeatures, landingZoneConfigurations, pricingCache, now,
                   costs, returned, featurePrice, refreshes, submissions, req, res>>

(* FeatureSelector: the features shown for the tier, in catalog order. *)
availableFeaturesForConfig(config) ==
    SelectSeq(availableFeatures, LAMBDA feature :
        /\ Includes(feature.availableInSizes, config.size)
        /\ Includes(config.availableFeatures, feature.id))

(* Mutant: no checkbox is disabled. *)
isDisabled_Never(config, feature) == FALSE

(* <Checkbox disabled={isMandatory}> *)
isDisabled(config, feature) == Includes(config.mandatoryFeatures, feature.id)

(* A click on the checkbox of a feature shown by FeatureSelector, which is *)
(* rendered once a tier is selected: onCheckedChange passes the new state  *)
(* of the box, the opposite of checked={isSelected}. The number of         *)
(* features ticked is kept within the bound of the model.                  *)
ClickFeature(feature) ==
    LET config == selectedConfiguration
        isSelected == Includes(costCalculation.selectedFeatures, feature.id)
    IN /\ config # Undefined
       /\ Includes(availableFeaturesForConfig(config), feature)
       /\ ~isDisabled(config, feature)
       /\ ~isSelected => Len(costCalculation.selectedFeatures)
                            < Len(config.mandatoryFeatures) + MaxSel
       /\ handleFeatureToggle(feature.id, ~isSelected)

(* onEC2Change={(value) => setCustomEC2Count(value[0])}: the sliders are   *)
(* rendered once a tier is selected and start at 1.                        *)
onEC2Change(value) ==
    /\ selectedConfiguration # Undefined
    /\ costCalculation' = [costCalculation EXCEPT !.customEC2Count = value]
    /\ UNCHANGED <<selector, pricing, availableFeatures, landingZoneConfigurations, pricingCache, now,
                   costs, returned, featurePrice, refreshes, submissions, req, res>>

(* onStorageChange={(value) => setCustomStorageTB(value[0])} *)
onStorageChange(value) ==
    /\ selectedConfiguration # Undefined
    /\ costCalculation' = [costCalculation EXCEPT !.customStorageTB = value]
    /\ UNCHANGED <<selector, pricing, availableFeatures, landingZoneConfigurations, pricingCache, now,
                   costs, returned, featurePrice, refreshes, submissions, req, res>>

NextForm ==
    \/ \E value \in TierSizes : handleConfigSelection(value)
    \/ \E i \in DOMAIN availableFeatures : ClickFeature(availableFeatures[i])
    \/ \E value \in 1..MaxEC2 : onEC2Change(value)
    \/ \E value \in 1..MaxTB : onStorageChange(value)

SpecForm == Init /\ [][NextForm]_vars

(* A tier is selected in the form. *)
TierSelected == selectedConfiguration # Undefined

(* The catalog feature with the given ID is offered in the tier. *)
OfferedIn(id, config) ==
    \E i \in DOMAIN availableFeatures :
        /\ availableFeatures[i].id = id
        /\ Includes(availableFeatures[i].availableInSizes, config.size)

(* C22: for each of the four tiers of landingZoneConfigurations, every ID  *)
(* in mandatoryFeatures is also in the tier's availableFeatures and names  *)
(* a feature of the catalog whose availableInSizes contains the tier.      *)
MandatoryFeaturesAvailable ==
    /\ {landingZoneConfigurations[t].size : t \in DOMAIN landingZoneConfigurations}
          = TierSizes
    /\ \A t \in DOMAIN landingZoneConfigurations :
          LET config == landingZoneConfigurations[t]
          IN \A m \in DOMAIN config.mandatoryFeatures :
                /\ Includes(config.availableFeatures, config.mandatoryFeatures[m])
                /\ OfferedIn(config.mandatoryFeatures[m], config)

(* The form has the small tier selected, and FeatureSelector shows the     *)
(* tier's two mandatory features among the features of the tier.           *)
MandatoryFeaturesWitness ==
    /\ TierSelected
    /\ selectedConfiguration.size = "small"
    /\ Len(selectedConfiguration.mandatoryFeatures) = 2
    /\ \A m \in DOMAIN selectedConfiguration.mandatoryFeatures :
          \E i \in DOMAIN availableFeaturesForConfig(selectedConfiguration) :
             availableFeaturesForConfig(selectedConfiguration)[i].id
                = selectedConfiguration.mandatoryFeatures[m]

(* C23: in the intake form, after any sequence of tier selections and      *)
(* feature toggles, every mandatory feature of the selected tier is in     *)
(* selectedFeatures: selecting a tier pre-selects its mandatory features,  *)
(* and the checkbox of a mandatory feature is disabled, so that            *)
(* onFeatureToggle(id, false) is never issued for it.                      *)
MandatoryFeaturesStaySelected ==
    /\ [](TierSelected =>
            \A m \in DOMAIN selectedConfiguration.mandatoryFeatures :
               Includes(costCalculation.selectedFeatures,
                        selectedConfiguration.mandatoryFeatures[m]))
    /\ [][\A value \in TierSizes : handleConfigSelection(value) =>
             \A m \in DOMAIN findConfig(value).mandatoryFeatures :
                Includes(costCalculation'.selectedFeatures,
                         findConfig(value).mandatoryFeatures[m])]_vars
    /\ [][\A i \in DOMAIN availableFeatures :
             handleFeatureToggle(availableFeatures[i].id, FALSE) =>
                ~Includes(selectedConfiguration.mandatoryFeatures,
                          availableFeatures[i].id)]_vars

(* The small tier is selected and an optional feature has been ticked:     *)
(* the two mandatory features are selected, followed by the optional one.  *)
MandatoryFeaturesStayWitness ==
    /\ TierSelected
    /\ selectedConfiguration.size = "small"
    /\ costCalculation.selectedFeatures
          = selectedConfiguration.mandatoryFeatures \o <<"guardduty">>
    /\ costCalculation.customEC2Count # selectedConfiguration.defaultVMs

(* C26: selecting a tier in the intake form sets the EC2 count to the      *)
(* tier's defaultVMs, the storage TB to its defaultStorageTB and the       *)
(* selected features to exactly the tier's mandatory features, whatever    *)
(* the sliders and the selection were before; after a tier change no       *)
(* selected feature is unavailable for the new tier.                       *)
TierSelectionResetsForm ==
    [][\A value \in TierSizes : handleConfigSelection(value) =>
          LET config == findConfig(value)
              selected == costCalculation'.selectedFeatures
          IN /\ costCalculation'.selectedConfig = value
             /\ costCalculation'.customEC2Count = config.defaultVMs
             /\ costCalculation'.customStorageTB = config.defaultStorageTB
             /\ selected = config.mandatoryFeatures
             /\ \A k \in DOMAIN selected :
                   /\ Includes(config.availableFeatures, selected[k])
                   /\ OfferedIn(selected[k], config)]_vars

(* The medium tier is selected, with its default counts and exactly its    *)
(* mandatory features selected.                                            *)
TierSelectionWitness ==
    /\ TierSelected
    /\ selectedConfiguration.size = "medium"
    /\ costCalculation.customEC2Count = 25
    /\ costCalculation.customStorageTB = 15
    /\ costCalculation.selectedFeatures = <<"aws-organizations", "cloudtrail-organization">>

(* C30: for every tier T of landingZoneConfigurations and every feature f  *)
(* of availableFeatures, f.id is in T.availableFeatures if and only if     *)
(* T.size is in f.availableInSizes, so that the calculator's               *)
(* availableInSizes filter and the availableFeatures list used by          *)
(* FeatureSelector and getFeaturesByCategory select the same features for  *)
(* every tier.                                                             *)
AvailabilityListsAgree ==
    \A t \in DOMAIN landingZoneConfigurations :
       LET config == landingZoneConfigurations[t]
           byCalculator ==
               SelectSeq(availableFeatures, LAMBDA feature :
                   Includes(feature.availableInSizes, config.size))
       IN /\ \A i \in DOMAIN availableFeatures :
                Includes(config.availableFeatures, availableFeatures[i].id)
                   <=> Includes(availableFeatures[i].availableInSizes, config.size)
          /\ byCalculator = availableFeaturesForConfig(config)

(* The large tier is selected in the form and FeatureSelector shows every  *)
(* feature of the catalog for it, an optional one of them ticked.          *)
AvailabilityListsWitness ==
    /\ TierSelected
    /\ selectedConfiguration.size = "large"
    /\ Len(availableFeaturesForConfig(selectedConfiguration)) = Len(availableFeatures)
    /\ Includes(costCalculation.selectedFeatures, "elasticsearch-logging")

(***************************************************************************)
(* AdditionalCostsSelector: the list of additional cost items is a prop of *)
(* the component, every change is handed to onAdditionalCostsChange, and   *)
(* the parent passes the list it received back as the prop. Texts are      *)
(* sequences of characters; amounts are whole dollars.                     *)
(***************************************************************************)

(* String.prototype.trim, in its two halves *)
RECURSIVE trimStart(_)
trimStart(text) ==
    IF text # <<>> /\ Head(text) = " " THEN trimStart(Tail(text)) ELSE text

RECURSIVE trimEnd(_)
trimEnd(text) ==
    IF text # <<>> /\ text[Len(text)] = " " THEN trimEnd(Front(text)) ELSE text

trim(text) == trimEnd(trimStart(text))

Digits == <<"0", "1", "2", "3", "4", "5", "6", "7", "8", "9">>

isDigit(c) == \E d \in 0..9 : Digits[d + 1] = c

digit(c) == CHOOSE d \in 0..9 : Digits[d + 1] = c

RECURSIVE leadingDigits(_)
leadingDigits(text) ==
    IF text # <<>> /\ isDigit(Head(text))
    THEN <<Head(text)>> \o leadingDigits(Tail(text))
    ELSE <<>>

RECURSIVE decimal(_)
decimal(digits) ==
    IF digits = <<>> THEN 0
    ELSE 10 * decimal(Front(digits)) + digit(digits[Len(digits)])

NaN == [nan |-> TRUE]

(* parseFloat: leading white space is skipped, then a sign and the longest *)
(* run of digits are read and whatever follows is ignored; without a digit *)
(* the result is NaN.                                                      *)
parseFloat(text) ==
    LET t      == trimStart(text)
        neg    == t # <<>> /\ Head(t) = "-"
        digits == leadingDigits(IF neg THEN Tail(t) ELSE t)
    IN IF digits = <<>> THEN NaN
       ELSE [nan |-> FALSE,
             value |-> IF neg THEN 0 - decimal(digits) ELSE decimal(digits)]

(* Number.prototype.toString *)
RECURSIVE toString(_)
toString(n) ==
    IF n < 0 THEN <<"-">> \o toString(0 - n)
    ELSE IF n < 10 THEN <<Digits[n + 1]>>
    ELSE toString(n \div 10) \o <<Digits[(n % 10) + 1]>>

(* A text that is a number from its first to its last character. *)
validNumber(text) ==
    LET digits == IF text # <<>> /\ Head(text) = "-" THEN Tail(text) ELSE text
    IN digits # <<>> /\ leadingDigits(digits) = digits

(* <Input type="number">: e.target.value is what was typed when that is a  *)
(* number, and the empty string otherwise.                                 *)
numberInput(typed) == IF validNumber(typed) THEN typed ELSE <<>>

(* What the user types into the description and the amount field of the    *)
(* new cost, and into those of the item shown in edit mode.                *)
TypedDescriptions == {<<" ">>, <<" ", "A", " ">>}

TypedAmounts == {<<"5", "x">>, <<"-", "1">>, <<"5">>}

RetypedDescriptions == {<<" ">>}

RetypedAmounts == {<<"5", "x">>, <<"-", "1">>, <<"0">>}

(* validateCost without its check of the sign of the amount. *)
validateCost_AnyNumber(description, amount) ==
    LET numAmount == parseFloat(amount)
        descriptionError ==
            IF trim(description) = <<>>
            THEN {<<"description", "Description is required">>}
            ELSE {}
        amountError ==
            IF trim(amount) = <<>>
            THEN {<<"amount", "Amount is required">>}
            ELSE IF numAmount.nan
            THEN {<<"amount", "Amount must be a valid non-negative number">>}
            ELSE {}
        newErrors == descriptionError \cup amountError
    IN [field \in {e[1] : e \in newErrors} |->
           (CHOOSE e \in newErrors : e[1] = field)[2]]

validateCost(description, amount) ==
    LET numAmount == parseFloat(amount)
        descriptionError ==
            IF trim(description) = <<>>
            THEN {<<"description", "Description is required">>}
            ELSE {}
        amountError ==
            IF trim(amount) = <<>>
            THEN {<<"amount", "Amount is required">>}
            ELSE IF numAmount.nan \/ numAmount.value < 0
            THEN {<<"amount", "Amount must be a valid non-negative number">>}
            ELSE {}
        newErrors == descriptionError \cup amountError
    IN [field \in {e[1] : e \in newErrors} |->
           (CHOOSE e \in newErrors : e[1] = field)[2]]

additionalCosts == costCalculation.additionalCosts

(* onAdditionalCostsChange(costs): the parent keeps the list and renders   *)
(* the component with it.                                                  *)
onAdditionalCostsChange(emitted) ==
    /\ selector.calls < MaxCalls
    /\ costCalculation' = [costCalculation EXCEPT !.additionalCosts = emitted]

(* The item of the list that is shown in edit mode, if any. *)
Editing(cost) == selector.editingId = cost.id

(* onChange of the description of the new cost *)
onNewDescriptionChange(typed) ==
    /\ selector' = [selector EXCEPT !.newCost.description = typed]
    /\ UNCHANGED <<pricing, availableFeatures, landingZoneConfigurations,
                   pricingCache, now, costCalculation, costs, returned,
                   featurePrice, refreshes, submissions, req, res>>

(* onChange of the amount of the new cost *)
onNewAmountChange(typed) ==
    /\ selector' = [selector EXCEPT !.newCost.amount = numberInput(typed)]
    /\ UNCHANGED <<pricing, availableFeatures, landingZoneConfigurations,
                   pricingCache, now, costCalculation, costs, returned,
                   featurePrice, refreshes, submissions, req, res>>

(* onChange of the description of the item shown in edit mode *)
onEditDescriptionChange(typed) ==
    /\ \E i \in DOMAIN additionalCosts : Editing(additionalCosts[i])
    /\ selector' = [selector EXCEPT !.editingCost.description = typed]
    /\ UNCHANGED <<pricing, availableFeatures, landingZoneConfigurations,
                   pricingCache, now, costCalculation, costs, returned,
                   featurePrice, refreshes, submissions, req, res>>

(* onChange of the amount of the item shown in edit mode *)
onEditAmountChange(typed) ==
    /\ \E i \in DOMAIN additionalCosts : Editing(additionalCosts[i])
    /\ selector' = [selector EXCEPT !.editingCost.amount = numberInput(typed)]
    /\ UNCHANGED <<pricing, availableFeatures, landingZoneConfigurations,
                   pricingCache, now, costCalculation, costs, returned,
                   featurePrice, refreshes, submissions, req, res>>

(* The "Add Cost" button. *)
handleAddCost ==
    LET validationErrors ==
            validateCost(selector.newCost.description, selector.newCost.amount)
        cost == [id          |-> [uuid |-> selector.nextId],
                 description |-> trim(selector.newCost.description),
                 amount      |-> parseFloat(selector.newCost.amount).value]
    IN /\ IF DOMAIN validationErrors # {}
          THEN /\ selector' = [selector EXCEPT !.errors = validationErrors]
               /\ UNCHANGED costCalculation
          ELSE /\ onAdditionalCostsChange(Append(additionalCosts, cost))
               /\ selector' = [selector EXCEPT !.newCost = NoCost,
                                               !.errors = NoErrors,
                                               !.nextId = @ + 1,
                                               !.calls = @ + 1]
       /\ UNCHANGED <<pricing, availableFeatures, landingZoneConfigurations,
                      pricingCache, now, costs, returned, featurePrice,
                      refreshes, submissions, req, res>>

(* The edit button of an item shown in view mode. *)
handleEditCost(id) ==
    /\ \E i \in DOMAIN additionalCosts :
          /\ additionalCosts[i].id = id
          /\ ~Editing(additionalCosts[i])
    /\ LET cost == additionalCosts[CHOOSE i \in DOMAIN additionalCosts :
                                       additionalCosts[i].id = id]
       IN selector' = [selector EXCEPT
                          !.editingCost = [description |-> cost.description,
                                           amount |-> toString(cost.amount)],
                          !.editingId = id,
                          !.errors = NoErrors]
    /\ UNCHANGED <<pricing, availableFeatures, landingZoneConfigurations,
                   pricingCache, now, costCalculation, costs, returned,
                   featurePrice, refreshes, submissions, req, res>>

(* The "Save" button of the item shown in edit mode. *)
handleSaveEdit ==
    LET validationErrors ==
            validateCost(selector.editingCost.description,
                         selector.editingCost.amount)
        updatedCosts ==
            [i \in DOMAIN additionalCosts |->
                IF additionalCosts[i].id = selector.editingId
                THEN [additionalCosts[i] EXCEPT
                         !.description = trim(selector.editingCost.description),
                         !.amount = parseFloat(selector.editingCost.amount).value]
                ELSE additionalCosts[i]]
    IN /\ \E i \in DOMAIN additionalCosts : Editing(additionalCosts[i])
       /\ IF selector.editingId = Null
          THEN UNCHANGED <<selector, costCalculation>>
          ELSE IF DOMAIN validationErrors # {}
          THEN /\ selector' = [selector EXCEPT !.errors = validationErrors]
               /\ UNCHANGED costCalculation
          ELSE /\ onAdditionalCostsChange(updatedCosts)
               /\ selector' = [selector EXCEPT !.editingId = Null,
                                               !.editingCost = NoCost,
                                               !.errors = NoErrors,
                                               !.calls = @ + 1]
       /\ UNCHANGED <<pricing, availableFeatures, landingZoneConfigurations,
                      pricingCache, now, costs, returned, featurePrice,
                      refreshes, submissions, req, res>>

(* The "Cancel" button of the item shown in edit mode. *)
handleCancelEdit ==
    /\ \E i \in DOMAIN additionalCosts : Editing(additionalCosts[i])
    /\ selector' = [selector EXCEPT !.editingId = Null,
                                    !.editingCost = NoCost,
                                    !.errors = NoErrors]
    /\ UNCHANGED <<pricing, availableFeatures, landingZoneConfigurations,
                   pricingCache, now, costCalculation, costs, returned,
                   featurePrice, refreshes, submissions, req, res>>

(* The remove button of an item shown in view mode. *)
handleRemoveCost(id) ==
    /\ \E i \in DOMAIN additionalCosts :
          /\ additionalCosts[i].id = id
          /\ ~Editing(additionalCosts[i])
    /\ onAdditionalCostsChange(
          SelectSeq(additionalCosts, LAMBDA cost : cost.id # id))
    /\ selector' = [selector EXCEPT !.calls = @ + 1]
    /\ UNCHANGED <<pricing, availableFeatures, landingZoneConfigurations,
                   pricingCache, now, costs, returned, featurePrice,
                   refreshes, submissions, req, res>>

(* The IDs crypto.randomUUID has handed out so far. *)
CostIds == {[uuid |-> n] : n \in 1..MaxCalls + 1}

NextSelector ==
    \/ \E typed \in TypedDescriptions : onNewDescriptionChange(typed)
    \/ \E typed \in TypedAmounts : onNewAmountChange(typed)
    \/ \E typed \in RetypedDescriptions : onEditDescriptionChange(typed)
    \/ \E typed \in RetypedAmounts : onEditAmountChange(typed)
    \/ handleAddCost
    \/ \E id \in CostIds : handleEditCost(id)
    \/ handleSaveEdit
    \/ handleCancelEdit
    \/ \E id \in CostIds : handleRemoveCost(id)

SpecSelector == Init /\ [][NextSelector]_vars

(* An item as the specification describes it: an ID, a non-empty           *)
(* description without surrounding white space, a non-negative amount.     *)
ValidItem(cost) ==
    /\ cost.id \in CostIds
    /\ cost.description # <<>>
    /\ trim(cost.description) = cost.description
    /\ cost.amount \in Nat

(* What is in the fields must be refused: the description is empty or      *)
(* blank, the amount is empty, is not a number, or is negative.            *)
Refused(entry) ==
    \/ trim(entry.description) = <<>>
    \/ entry.amount = <<>>
    \/ ~validNumber(entry.amount)
    \/ parseFloat(entry.amount).value < 0

(* The items of a list other than the one with the given ID, in order. *)
Others(list, id) == SelectSeq(list, LAMBDA cost : cost.id # id)

(* The step emits nothing and shows a validation error. *)
RefusedWithError ==
    /\ selector'.calls = selector.calls
    /\ additionalCosts' = additionalCosts
    /\ DOMAIN selector'.errors # {}

(* C27: after any sequence of add, edit, save, cancel and remove           *)
(* operations, every item of the emitted list has an ID of its own, a      *)
(* non-empty trimmed description and a numeric amount >= 0; an add or a    *)
(* save whose description is empty or whose amount is empty, non-numeric   *)
(* or negative emits nothing, leaves the list as it was and sets a         *)
(* validation error; a remove takes exactly the item with the given ID out *)
(* of the list and a save replaces exactly the item being edited, every    *)
(* other item staying as and where it was.                                 *)
EmittedItemsValid ==
    /\ [](/\ \A i \in DOMAIN additionalCosts : ValidItem(additionalCosts[i])
          /\ \A i, j \in DOMAIN additionalCosts :
                additionalCosts[i].id = additionalCosts[j].id => i = j)
    /\ [][handleAddCost /\ Refused(selector.newCost) => RefusedWithError]_vars
    /\ [][handleSaveEdit /\ Refused(selector.editingCost) => RefusedWithError]_vars
    /\ [][\A id \in CostIds : handleRemoveCost(id) =>
            /\ Len(additionalCosts') = Len(additionalCosts) - 1
            /\ additionalCosts' = Others(additionalCosts, id)
            /\ \A i \in DOMAIN additionalCosts' : additionalCosts'[i].id # id]_vars
    /\ [][handleSaveEdit =>
            /\ Len(additionalCosts') = Len(additionalCosts)
            /\ \A i \in DOMAIN additionalCosts :
                  \/ additionalCosts'[i] = additionalCosts[i]
                  \/ additionalCosts[i].id = selector.editingId
                     /\ additionalCosts'[i].id = selector.editingId]_vars

(* Two items were added and one of them was saved with another amount;     *)
(* then an add with a negative amount was refused: the list still holds    *)
(* the two items and the amount field shows its error.                     *)
EmittedItemsWitness ==
    /\ Len(additionalCosts) = 2
    /\ selector.calls > Len(additionalCosts)
    /\ additionalCosts[1].amount # additionalCosts[2].amount
    /\ selector.editingId = Null
    /\ selector.newCost.amount = <<"-", "1">>
    /\ "amount" \in DOMAIN selector.errors

====
